---- MODULE Spec2Model ----
(***************************************************************************)
(* Model of the image-generation pipeline of backend/services/image.py:    *)
(* ImageService.generate_images, _generate_single_image and the retry      *)
(* operations, over one task id.  An operation is a generator object (or a *)
(* synchronous call) whose position is ops[o].pc; one step of the model is *)
(* the code an operation runs between two suspension points (a yield, a    *)
(* generator invocation, a wait for a future).                             *)
(*                                                                         *)
(* Not modelled: thumbnail files (written best-effort at image.py:419-427, *)
(* read by no operation), the text of prompts and outlines, the time spent *)
(* in time.sleep(2), and failures of the file system itself (a write that  *)
(* stops half way, a read of a file just written that raises).             *)
(*                                                                         *)
(* The adapter of backend/generators/openai_compatible.py is modelled as   *)
(* one generate_image call (the retry wrapper over the two endpoints, the  *)
(* upstream answering with any response), the process-wide resolver that   *)
(* force_ip_resolution patches, and the ImageService singleton with the    *)
(* saved provider configuration (image.py:643-656, api.py:702-737).  The    *)
(* delays between attempts are not modelled.                               *)
(*                                                                         *)
(* HistoryService (backend/services/history.py) is modelled with its two   *)
(* stores, the record files and the Supabase table, and the operations     *)
(* create, get, update, delete and scan_and_sync_task_images; of a record  *)
(* the model keeps its task id and its image list.  ConfigService          *)
(* (backend/services/config.py) is modelled by the api_key of each         *)
(* provider of one group in the provider file and in the Supabase table,   *)
(* as GET and POST /api/config read and write them.                        *)
(***************************************************************************)
EXTENDS Integers, Sequences, FiniteSets, TLC

\* ------------------------------------------------------------------ bounds
MaxPages == 2
MaxIndex == 2
MaxOverlapPages == 1

\* --------------------------------------------------------- program constants
MAX_CONCURRENT == 2
AUTO_RETRY_COUNT == 3

\* ------------------------------------------------------------------- values
Ops == {1, 2}
TaskId == "t"
None == <<>>
NoIndex == -1
EmptyMap == [x \in {} |-> None]

Indices == 0..MaxIndex
Page == [index : Indices, has_prompt : BOOLEAN]

RECURSIVE SeqsUpTo(_, _)
SeqsUpTo(S, n) ==
    IF n = 0 THEN {<<>>}
    ELSE LET shorter == SeqsUpTo(S, n - 1)
         IN  shorter \cup {Append(s, x) : s \in {t \in shorter : Len(t) = n - 1}, x \in S}

PageLists == SeqsUpTo(Page, MaxPages) \ {<<>>}

\* provider_config.get('max_concurrent', MAX_CONCURRENT): the key may be absent
PoolSettings == {None, <<1>>}
ConfigGet(setting, default) == IF setting = None THEN default ELSE setting[1]

\* f"{index}.png"
Filename(index) == <<"png", index>>
\* the bytes the generator returns on attempt n of the call for page position k of op o
ImageBytes(o, k, n) == <<"img", o, k, n>>
\* str(e) of the exception raised on attempt n of that call
ErrorMsg(o, k, n) == <<"err", o, k, n>>
\* str(KeyError('image_prompt'))
KeyErrorMsg(o, k) == <<"KeyError", o, k, 0>>
\* the bytes of a 0.png that an earlier process left in the task directory
OldCover == <<"img", 0, 0, 0>>

\* the raw bytes of the i-th reference image uploaded with the request
Upload(i) == <<"upload", 0, 0, i>>
\* compress_image(img_bytes, max_size=(1024, 1024)): the image capped to the
\* bounding box
CompressImage(img_bytes) == <<"compressed", 0, 0, img_bytes[4]>>

\* image.py:100-106: the uploads that compress to something
CompressedUserImages(user_images) ==
    LET compressed == [i \in 1..Len(user_images) |-> CompressImage(user_images[i])]
    IN  SelectSeq(compressed, LAMBDA c : c # None)

Put(f, k, v) == [x \in DOMAIN f \cup {k} |-> IF x = k THEN v ELSE f[x]]
Del(f, k) == [x \in DOMAIN f \ {k} |-> f[x]]

VARIABLES
    provider_config,   \* [high_concurrency, max_concurrent]
    task_states,       \* self._task_states: task id -> state record
    disk,              \* the task directory: page index -> bytes of "{index}.png"
    ops,               \* the operations in flight: op id -> record
    adapter,           \* the generate_image call in flight on the adapter
    socket_getaddrinfo, \* the process-wide resolver, socket.getaddrinfo
    resolving,         \* thread -> its position in force_ip_resolution
    service_instance,  \* _service_instance, the ImageService singleton
    config_file,       \* the provider configuration that is saved on disk
    history,           \* the HistoryService singleton and its two stores
    sync_raises,       \* whether scan_and_sync_task_images raises when called
    key_store          \* the api_key of each provider as ConfigService stores it

\* what lies outside the ImageService object and its task directory
stores == <<history, sync_raises, key_store>>
rest == <<adapter, socket_getaddrinfo, resolving, service_instance, config_file, stores>>

vars == <<provider_config, task_states, disk, ops, rest>>

\* ------------------------------ the adapter: OpenAICompatibleGenerator
\* @retry_on_error(max_retries=5, base_delay=3); the delays are not modelled
MAX_RETRIES == 5

\* self.endpoint_type: 'images', 'chat', or whatever the configuration holds
EndpointTypes == {"images", "chat", "other"}

\* what an attempt of the wrapped function ends with
Return(b) == [ok |-> TRUE, value |-> b]
Raise(e) == [ok |-> FALSE, value |-> e]

\* the image that the upstream sent on attempt n
UpstreamImage(n) == <<"upstream", 0, 0, n>>
\* b""
EmptyBytes == <<"bytes", 0, 0, 0>>
\* what base64.b64decode makes of text that is no image
Garbage(n) == <<"garbage", 0, 0, n>>

RequestException == <<"RequestException", 0, 0, 0>>
StatusError(status) == <<"status", 0, 0, status>>
ParseError == <<"JSONDecodeError", 0, 0, 0>>
NoDataError == <<"no data", 0, 0, 0>>
NoPayloadError == <<"no b64_json or url", 0, 0, 0>>
DownloadError(status) == <<"download", 0, 0, status>>
BinasciiError == <<"binascii.Error", 0, 0, 0>>
ChatNoImageError == <<"no image in chat response", 0, 0, 0>>
UnsupportedEndpoint == <<"unsupported endpoint", 0, 0, 0>>
\* openai_compatible.py:40-47: "retried 5 times and still failing", with causes
RetriesExhausted == <<"retries exhausted", 0, 0, MAX_RETRIES>>

\* the upstream's answer to one request. status 0: requests.post raised.
\* body: the shape of the answer's text. payload: what the base64 text in it
\* encodes ("text": not decodable, "text4": decodable text that is no image).
\* download: the outcome of the GET of the image's URL.
Responses ==
    [status : {0, 429, 500}, body : {"none"}, payload : {"none"}, download : {"none"}]
    \cup [status : {200},
          body : {"unparseable", "object", "data_empty", "data_other", "content_short"},
          payload : {"none"}, download : {"none"}]
    \cup [status : {200}, body : {"data_b64", "content_data_uri"},
          payload : {"image", "empty"}, download : {"none"}]
    \cup [status : {200}, body : {"content_long"},
          payload : {"image", "text", "text4"}, download : {"none"}]
    \cup [status : {200}, body : {"data_url", "content_url"},
          payload : {"none"}, download : {"image", "empty", "404", "raised"}]
NoResponse == [status |-> 0, body |-> "none", payload |-> "none", download |-> "never"]

\* base64.b64decode(payload)
B64Decode(payload, n) ==
    CASE payload = "image" -> Return(UpstreamImage(n))
      [] payload = "empty" -> Return(EmptyBytes)
      [] payload = "text4" -> Return(Garbage(n))
      [] OTHER -> Raise(BinasciiError)

\* img_response.content of a download that answered 200
Content(download, n) == IF download = "image" THEN UpstreamImage(n) ELSE EmptyBytes

\* openai_compatible.py:191-289
ImagesApi(r, n) ==
    IF r.status = 0 THEN Raise(RequestException)
    ELSE IF r.status # 200 THEN Raise(StatusError(r.status))
    ELSE IF r.body = "unparseable" THEN Raise(ParseError)
    ELSE IF r.body \notin {"data_b64", "data_url", "data_other"} THEN Raise(NoDataError)
    ELSE IF r.body = "data_b64" THEN B64Decode(r.payload, n)
    ELSE IF r.body = "data_url"
         THEN IF r.download = "raised" THEN Raise(RequestException)
              ELSE IF r.download = "404" THEN Raise(DownloadError(404))
              ELSE Return(Content(r.download, n))
    ELSE Raise(NoPayloadError)

\* openai_compatible.py:291-397
ChatApi(r, n) ==
    IF r.status = 0 THEN Raise(RequestException)
    ELSE IF r.status # 200 THEN Raise(StatusError(r.status))
    ELSE IF r.body = "unparseable" THEN Raise(ParseError)
    ELSE IF r.body = "content_data_uri" THEN B64Decode(r.payload, n)
    ELSE IF r.body = "content_long" /\ B64Decode(r.payload, n).ok
         THEN B64Decode(r.payload, n)
    ELSE IF r.body \in {"content_url", "data_url"} /\ r.download = "raised"
         THEN Raise(RequestException)
    ELSE IF r.body \in {"content_url", "data_url"} /\ r.download # "404"
         THEN Return(Content(r.download, n))
    ELSE IF r.body = "data_b64" THEN B64Decode(r.payload, n)
    ELSE Raise(ChatNoImageError)

\* openai_compatible.py:177-189: the wrapped generate_image, attempt n
GenerateImageOnce(endpoint_type, r, n) ==
    CASE endpoint_type = "images" -> ImagesApi(r, n)
      [] endpoint_type = "chat" -> ChatApi(r, n)
      [] OTHER -> Raise(UnsupportedEndpoint)

\* openai_compatible.py:181-189: no request leaves for an unsupported endpoint type
Posts(endpoint_type) == IF endpoint_type \in {"images", "chat"} THEN 1 ELSE 0

\* openai_compatible.py:27: "429" in error_str or "rate" in error_str.lower()
IsRateLimit(e) == e[1] \in {"status", "download"} /\ e[4] = 429

\* openai_compatible.py:24-39: what the loop does with the exception of an attempt
AfterErrorRaisesAtOnce(attempt, e) == "raise"
AfterError(attempt, e) ==
    IF IsRateLimit(e) /\ attempt < MAX_RETRIES - 1 THEN "continue"
    ELSE IF attempt < MAX_RETRIES - 1 THEN "continue"
    ELSE "raise"

\* openai_compatible.py:21: for attempt in range(max_retries)
NextAttemptStuck(attempt) == attempt
NextAttempt(attempt) == attempt + 1

\* a generate_image call: attempt is the loop variable, posts counts the
\* requests sent to the generation endpoint, response is the last answer
NoAdapterCall ==
    [pc |-> "idle", endpoint_type |-> "images", attempt |-> 0, posts |-> 0,
     response |-> NoResponse, last_error |-> None, result |-> None]

\* openai_compatible.py:20-47: the wrapper after the attempt that ended with res
Wrapped(call, r, res) ==
    LET seen == [call EXCEPT !.response = r,
                             !.posts = @ + Posts(call.endpoint_type)]
    IN  IF res.ok THEN [seen EXCEPT !.pc = "returned", !.result = res]
        ELSE IF AfterError(call.attempt, res.value) = "raise"
             THEN [seen EXCEPT !.pc = "raised", !.result = res,
                               !.last_error = res.value]
        ELSE IF NextAttempt(call.attempt) >= MAX_RETRIES
             THEN [seen EXCEPT !.pc = "raised", !.result = Raise(RetriesExhausted),
                               !.last_error = res.value]
        ELSE [seen EXCEPT !.attempt = NextAttempt(call.attempt),
                          !.last_error = res.value]

\* ------------------------------------------------- force_ip_resolution
Threads == {1, 2}
Hostname == <<"api.example.com">>
Ip == <<"203.0.113.7">>
\* self.resolved_ip: None, the hostname itself (resolution failed), or an address
ResolvedIps == {None, Hostname, Ip}

\* the resolver of the socket module as imported
Original == <<>>
\* openai_compatible.py:93-96: patched_getaddrinfo of thread t, a closure
\* over the resolver that t saved
Patched(t, original_getaddrinfo) == <<t>> \o original_getaddrinfo

NotResolving == [pc |-> "out", ip |-> None, original_getaddrinfo |-> None, entered |-> 0]

\* ------------------------------------------- the ImageService singleton
ProviderNames == {"a", "b"}
ProviderConfigs == [high_concurrency : BOOLEAN, max_concurrent : PoolSettings]
\* image_providers.yaml: active_provider and providers
Configs == [active_provider : ProviderNames, providers : [ProviderNames -> ProviderConfigs]]
\* image.py:30-46: providers[active_provider]
ActiveProvider(config) == config.providers[config.active_provider]
NoConfig ==
    [active_provider |-> "a",
     providers |-> [p \in ProviderNames |->
                      [high_concurrency |-> FALSE, max_concurrent |-> None]]]

\* ------------------------------------- the stores behind the services
\* history.py:11-39: a HistoryService that found no Supabase credentials
\* and whose history directory holds no record
NoHistory ==
    [supabase |-> FALSE, enable_supabase |-> FALSE,
     files |-> EmptyMap, remote |-> EmptyMap, uuids |-> 0,
     returned |-> EmptyMap, touched |-> {},
     last |-> [op |-> "none", result |-> None]]

\* config.py:12-31, 183-219: a file-backed ConfigService without providers
NoKeyStore ==
    [backend |-> "file", file |-> EmptyMap, remote |-> EmptyMap,
     response |-> EmptyMap, posted |-> EmptyMap, op |-> "none"]

\* the history service and the configuration store are not in use
StoresIdle ==
    /\ history = NoHistory
    /\ sync_raises = FALSE
    /\ key_store = NoKeyStore

\* nothing outside the ImageService object is in use
RestIdle ==
    /\ adapter = NoAdapterCall
    /\ socket_getaddrinfo = Original
    /\ resolving = [t \in Threads |-> NotResolving]
    /\ service_instance = <<"ImageService">>
    /\ config_file = NoConfig
    /\ StoresIdle

\* ----------------------------------------------------------- task state
NewTaskState(pages) ==
    [total |-> Len(pages), generated |-> EmptyMap, failed |-> EmptyMap,
     cover_image |-> None]

HasTask == TaskId \in DOMAIN task_states
Generated == IF HasTask THEN task_states[TaskId].generated ELSE EmptyMap
Failed == IF HasTask THEN task_states[TaskId].failed ELSE EmptyMap

\* self._task_states[task_id]["generated"][index] = filename
SetGeneratedDropped(ts, index, filename) == ts
SetGenerated(ts, index, filename) ==
    [ts EXCEPT ![TaskId].generated = Put(@, index, filename)]

\* self._task_states[task_id]["failed"][index] = error
SetFailedDropped(ts, index, error) == ts
SetFailed(ts, index, error) ==
    [ts EXCEPT ![TaskId].failed = Put(@, index, error)]

\* ------------------------------------------------------------ page lists
\* image.py:110-116: the cover is the last page whose index is 0
RECURSIVE CoverPosFrom(_, _)
CoverPosFrom(pages, k) ==
    IF k = 0 THEN 0
    ELSE IF pages[k].index = 0 THEN k ELSE CoverPosFrom(pages, k - 1)
CoverPos(pages) == CoverPosFrom(pages, Len(pages))

\* the positions of the pages with index # 0, in input order
RECURSIVE OtherPosFrom(_, _)
OtherPosFrom(pages, k) ==
    IF k > Len(pages) THEN <<>>
    ELSE IF pages[k].index # 0 THEN <<k>> \o OtherPosFrom(pages, k + 1)
         ELSE OtherPosFrom(pages, k + 1)
OtherPosReversed(pages) ==
    LET s == OtherPosFrom(pages, 1)
    IN  [i \in 1..Len(s) |-> s[Len(s) + 1 - i]]
OtherPos(pages) == OtherPosFrom(pages, 1)

\* ---------------------------------------------------------------- events
PageEvent(event, index, status, phase, image_url, message) ==
    [event |-> event, index |-> index, status |-> status, phase |-> phase,
     image_url |-> image_url, message |-> message]

\* image.py:125-135, 193-202, 223-232, 285-294, 298-307
ProgressEvent(index, status, phase) ==
    PageEvent("progress", index, status, phase, None, None)
\* image.py:160-168, 244-252, 324-332: f"/api/images/{task_id}/{filename}"
CompleteEvent(index, phase) ==
    PageEvent("complete", index, "done", phase, <<"url", TaskId, Filename(index)>>, None)
\* image.py:172-181, 257-266, 273-282, 337-346
ErrorEvent(index, phase, message) ==
    PageEvent("error", index, "error", phase, None, message)

RECURSIVE IndicesOf(_, _)
IndicesOf(pages, positions) ==
    IF positions = <<>> THEN <<>>
    ELSE <<pages[Head(positions)].index>> \o IndicesOf(pages, Tail(positions))

\* image.py:357-368
FinishEvent(pages, generated_images, failed_pages) ==
    [event |-> "finish", success |-> (Len(failed_pages) = 0),
     images |-> generated_images,
     total |-> Len(pages), completed |-> Len(generated_images),
     failed |-> Len(failed_pages),
     failed_indices |-> IndicesOf(pages, failed_pages)]

\* ------------------------------------------------- _generate_single_image
NoCall ==
    [st |-> "none", retry_count |-> 0, reference_image |-> None,
     user_images |-> <<>>, attempts |-> <<>>, passed |-> <<>>, error |-> None]

OK == <<"ok", 0, 0, 0>>

\* image.py:208-217: the call as submitted to the pool, not yet picked up
QueuedCall(reference_image, user_images) ==
    [NoCall EXCEPT !.st = "queued", !.reference_image = reference_image,
                   !.user_images = user_images]

\* image.py:383-384: page["image_prompt"] is read outside the try block
EnterCall(o, k, page, reference_image, user_images) ==
    IF page.has_prompt
    THEN [NoCall EXCEPT !.st = "running", !.reference_image = reference_image,
                        !.user_images = user_images]
    ELSE [NoCall EXCEPT !.st = "raised", !.reference_image = reference_image,
                        !.user_images = user_images, !.error = KeyErrorMsg(o, k)]

\* image.py:396-404: reference_image=ref_images[0] if ref_images else None
GeneratorReferenceNoUser(call) == call.reference_image
GeneratorReferenceUserFirst(call) ==
    IF call.user_images # <<>> THEN Head(call.user_images) ELSE call.reference_image
GeneratorReference(call) ==
    IF call.reference_image # None THEN call.reference_image
    ELSE IF call.user_images # <<>> THEN Head(call.user_images)
    ELSE None

\* image.py:435: if retry_count < self.AUTO_RETRY_COUNT
ShouldRetryInclusive(retry_count) == retry_count <= AUTO_RETRY_COUNT
ShouldRetry(retry_count) == retry_count < AUTO_RETRY_COUNT

\* image.py:402-429: the generator returned data and the file was written
CallSucceeded(call) ==
    [call EXCEPT !.st = "ok", !.attempts = Append(@, OK)]

\* image.py:431-442: the attempt raised e
CallFailedFirstError(call, e) ==
    IF ShouldRetry(call.retry_count)
    THEN [call EXCEPT !.retry_count = @ + 1, !.attempts = Append(@, e)]
    ELSE [call EXCEPT !.st = "fail", !.attempts = Append(@, e),
                      !.error = Head(Append(call.attempts, e))]
CallFailed(call, e) ==
    IF ShouldRetry(call.retry_count)
    THEN [call EXCEPT !.retry_count = @ + 1, !.attempts = Append(@, e)]
    ELSE [call EXCEPT !.st = "fail", !.attempts = Append(@, e), !.error = e]

CallDone(call) == call.st \in {"ok", "fail", "raised"}

\* image.py:402-406: generator.generate(reference_image=...) of one attempt
Generate(call) == [call EXCEPT !.passed = Append(@, GeneratorReference(call))]

\* image.py:412-416: open(filepath, "wb"), f.write(image_data)
WriteFileSkipped(files, index, image_data) == files
WriteFile(files, index, image_data) == Put(files, index, image_data)

\* ---------------------------------------------------------- operations
IdleOp ==
    [kind |-> "none", pc |-> "idle", pages |-> <<>>, user_images |-> <<>>,
     max_workers |-> 0, cursor |-> 0, calls |-> <<>>, collected |-> {},
     events |-> <<>>, generated_images |-> <<>>, failed_pages |-> <<>>,
     compressed_user_images |-> <<>>, cover_image_data |-> None, sync_log |-> <<>>,
     use_reference |-> FALSE, success_count |-> 0, failed_count |-> 0,
     sync_errors |-> 0, result |-> None]

Emit(op, e) == [op EXCEPT !.events = Append(@, e)]

\* image.py:350-355, 483-487, 599-603: scan_and_sync_task_images is called
\* in a try block whose except clause drops what the call raises; at is the
\* number of events emitted before the call
Synced(op, at) ==
    [op EXCEPT !.sync_log = Append(@, at),
               !.sync_errors = IF sync_raises THEN @ + 1 ELSE @]

\* one generator invocation of a running call (any operation kind)
AttemptRecording(o, k) ==
    /\ ops[o].kind # "none"
    /\ k \in DOMAIN ops[o].calls
    /\ ops[o].calls[k].st = "running"
    /\ LET call == ops[o].calls[k]
           n == Len(call.attempts) + 1
           index == ops[o].pages[k].index
       IN  \/ /\ ops' = [ops EXCEPT ![o].calls[k] = CallSucceeded(Generate(call))]
              /\ disk' = WriteFile(disk, index, ImageBytes(o, k, n))
              /\ task_states' = IF TaskId \in DOMAIN task_states
                                THEN SetGenerated(task_states, index, Filename(index))
                                ELSE task_states
           \/ /\ ops' = [ops EXCEPT ![o].calls[k] =
                            CallFailed(Generate(call), ErrorMsg(o, k, n))]
              /\ UNCHANGED <<disk, task_states>>
    /\ UNCHANGED <<rest, provider_config>>
Attempt(o, k) ==
    /\ ops[o].kind # "none"
    /\ k \in DOMAIN ops[o].calls
    /\ ops[o].calls[k].st = "running"
    /\ LET call == ops[o].calls[k]
           n == Len(call.attempts) + 1
           index == ops[o].pages[k].index
       IN  \/ /\ ops' = [ops EXCEPT ![o].calls[k] = CallSucceeded(Generate(call))]
              /\ disk' = WriteFile(disk, index, ImageBytes(o, k, n))
           \/ /\ ops' = [ops EXCEPT ![o].calls[k] =
                            CallFailed(Generate(call), ErrorMsg(o, k, n))]
              /\ UNCHANGED disk
    /\ UNCHANGED <<rest, provider_config, task_states>>

\* a pool thread picks the next submitted call up (FIFO, at most max_workers run)
WorkerStart(o, k) ==
    /\ ops[o].kind # "none"
    /\ k \in DOMAIN ops[o].calls
    /\ ops[o].calls[k].st = "queued"
    /\ \A j \in DOMAIN ops[o].calls : j < k => ops[o].calls[j].st # "queued"
    /\ Cardinality({j \in DOMAIN ops[o].calls : ops[o].calls[j].st = "running"})
          < ops[o].max_workers
    /\ ops' = [ops EXCEPT ![o].calls[k] =
                 EnterCall(o, k, ops[o].pages[k], @.reference_image, @.user_images)]
    /\ UNCHANGED <<rest, provider_config, task_states, disk>>

\* ------------------------------------------------------ generate_images
\* image.py:148-150, 240-242, 320-322 / 169-171, 253-255, 333-335 / 268-271:
\* what one finished call does to the run's locals ...
OpAfterResultUncounted(op, k, phase) ==
    LET call == op.calls[k]
        index == op.pages[k].index
    IN  IF call.st = "ok"
        THEN Emit(op, CompleteEvent(index, phase))
        ELSE Emit([op EXCEPT !.failed_pages = Append(@, k)],
                  ErrorEvent(index, phase, call.error))
OpAfterResult(op, k, phase) ==
    LET call == op.calls[k]
        index == op.pages[k].index
    IN  IF call.st = "ok"
        THEN Emit([op EXCEPT !.generated_images = Append(@, Filename(index))],
                  CompleteEvent(index, phase))
        ELSE Emit([op EXCEPT !.failed_pages = Append(@, k)],
                  ErrorEvent(index, phase, call.error))

\* ... and to the task's state
StateAfterResult(ts, op, k) ==
    LET call == op.calls[k]
        index == op.pages[k].index
    IN  IF call.st = "ok"
        THEN SetGenerated(ts, index, Filename(index))
        ELSE SetFailed(ts, index, call.error)

\* image.py:350-368: the history sync, then the finish event
FinishSyncUncaught(op) ==
    IF sync_raises
    THEN [Synced(op, Len(op.events)) EXCEPT !.pc = "raised"]
    ELSE [Emit(Synced(op, Len(op.events)),
               FinishEvent(op.pages, op.generated_images, op.failed_pages))
            EXCEPT !.pc = "finished"]
Finish(op) ==
    [Emit(Synced(op, Len(op.events)),
          FinishEvent(op.pages, op.generated_images, op.failed_pages))
       EXCEPT !.pc = "finished"]

\* image.py:184-202 / 283-294
BatchStartDefaultPool(op) ==
    [Emit(op, ProgressEvent(NoIndex, "batch_start", "content"))
       EXCEPT !.pc = "batch_start", !.max_workers = MAX_CONCURRENT]
BatchStart(op) ==
    [Emit(op, ProgressEvent(NoIndex, "batch_start", "content"))
       EXCEPT !.pc = "batch_start",
              !.max_workers = ConfigGet(provider_config.max_concurrent, MAX_CONCURRENT)]

\* image.py:85-135: the first next() on the generator
GI_Begin(o) ==
    /\ ops[o].kind = "generate"
    /\ ops[o].pc = "created"
    /\ task_states' = [t \in {TaskId} |-> NewTaskState(ops[o].pages)]
    /\ ops' = [ops EXCEPT ![o] =
                 LET op == [@ EXCEPT !.compressed_user_images =
                                        CompressedUserImages(ops[o].user_images)]
                 IN  IF CoverPos(op.pages) # 0
                     THEN [Emit(op, ProgressEvent(0, "generating_cover", "cover"))
                             EXCEPT !.pc = "cover_progress"]
                     ELSE BatchStart(op)]
    /\ UNCHANGED <<rest, provider_config, disk>>

\* image.py:138-146: the cover's call, with no reference image
GI_CoverCall(o) ==
    /\ ops[o].kind = "generate"
    /\ ops[o].pc = "cover_progress"
    /\ LET k == CoverPos(ops[o].pages)
           call == EnterCall(o, k, ops[o].pages[k], None,
                             ops[o].compressed_user_images)
       IN  ops' = [ops EXCEPT ![o].calls[k] = call,
                              ![o].pc = IF call.st = "raised" THEN "raised" ELSE "cover_call"]
    /\ UNCHANGED <<rest, provider_config, task_states, disk>>

\* image.py:148-181
GI_CoverResult(o) ==
    /\ ops[o].kind = "generate"
    /\ ops[o].pc = "cover_call"
    /\ LET k == CoverPos(ops[o].pages)
           ok == ops[o].calls[k].st = "ok"
       IN  /\ CallDone(ops[o].calls[k])
           /\ task_states' =
                IF ok
                THEN [StateAfterResult(task_states, ops[o], k)
                        EXCEPT ![TaskId].cover_image = disk[0]]
                ELSE StateAfterResult(task_states, ops[o], k)
           /\ ops' = [ops EXCEPT ![o] =
                        [OpAfterResult(@, k, "cover")
                           EXCEPT !.pc = "cover_result",
                                  !.cover_image_data = IF ok THEN disk[0] ELSE None]]
    /\ UNCHANGED <<rest, provider_config, disk>>

\* image.py:184: the pull after the cover's event
GI_AfterCover(o) ==
    /\ ops[o].kind = "generate"
    /\ ops[o].pc = "cover_result"
    /\ ops' = [ops EXCEPT ![o] =
                 IF OtherPos(@.pages) # <<>> THEN BatchStart(@) ELSE Finish(@)]
    /\ UNCHANGED <<rest, provider_config, task_states, disk>>

\* image.py:205-232: the first pull after batch_start submits every content
\* page to the pool; this pull and the following ones emit the generating
\* events, one per content page, in input order
GI_Generating(o) ==
    /\ ops[o].kind = "generate"
    /\ provider_config.high_concurrency
    /\ LET other == OtherPos(ops[o].pages)
           others == {other[i] : i \in 1..Len(other)}
           first == ops[o].pc = "batch_start"
       IN  /\ first \/ (ops[o].pc = "hc_progress" /\ ops[o].cursor < Len(other))
           /\ ops' = [ops EXCEPT ![o] =
                        [Emit(@, ProgressEvent(@.pages[other[@.cursor + 1]].index,
                                               "generating", "content"))
                           EXCEPT !.pc = "hc_progress", !.cursor = @ + 1,
                                  !.calls = [k \in DOMAIN @ |->
                                               IF first /\ k \in others
                                               THEN QueuedCall(ops[o].cover_image_data,
                                                               ops[o].compressed_user_images)
                                               ELSE @[k]]]]
    /\ UNCHANGED <<rest, provider_config, task_states, disk>>

\* image.py:222-235: the as_completed loop starts after the last generating event
MayCollectEarly(op) == op.pc \in {"hc_progress", "hc_collect"}
MayCollect(op) ==
    \/ op.pc = "hc_progress" /\ op.cursor = Len(OtherPos(op.pages))
    \/ op.pc = "hc_collect"

\* image.py:235-282: as_completed hands over a finished future
GI_Collect(o, k) ==
    /\ ops[o].kind = "generate"
    /\ MayCollect(ops[o])
    /\ LET other == OtherPos(ops[o].pages)
       IN  k \in {other[i] : i \in 1..Len(other)} \ ops[o].collected
    /\ CallDone(ops[o].calls[k])
    /\ task_states' = StateAfterResult(task_states, ops[o], k)
    /\ ops' = [ops EXCEPT ![o] =
                 [OpAfterResult(@, k, "content")
                    EXCEPT !.pc = "hc_collect", !.collected = @ \cup {k}]]
    /\ UNCHANGED <<rest, provider_config, disk>>

\* image.py:296-307: the generating event of the next content page
GI_SeqProgress(o) ==
    /\ ops[o].kind = "generate"
    /\ ~provider_config.high_concurrency
    /\ LET other == OtherPos(ops[o].pages)
       IN  /\ \/ ops[o].pc = "batch_start"
              \/ ops[o].pc = "seq_result" /\ ops[o].cursor < Len(other)
           /\ ops' = [ops EXCEPT ![o] =
                        [Emit(@, ProgressEvent(@.pages[other[@.cursor + 1]].index,
                                               "generating", "content"))
                           EXCEPT !.pc = "seq_progress"]]
    /\ UNCHANGED <<rest, provider_config, task_states, disk>>

\* image.py:310-318: the call runs in the generator's own thread; an exception
\* out of it leaves the generator
GI_SeqCall(o) ==
    /\ ops[o].kind = "generate"
    /\ ops[o].pc = "seq_progress"
    /\ LET k == OtherPos(ops[o].pages)[ops[o].cursor + 1]
           call == EnterCall(o, k, ops[o].pages[k], ops[o].cover_image_data,
                             ops[o].compressed_user_images)
       IN  ops' = [ops EXCEPT ![o].calls[k] = call,
                              ![o].pc = IF call.st = "raised" THEN "raised" ELSE "seq_call"]
    /\ UNCHANGED <<rest, provider_config, task_states, disk>>

\* image.py:320-346
GI_SeqResult(o) ==
    /\ ops[o].kind = "generate"
    /\ ops[o].pc = "seq_call"
    /\ LET k == OtherPos(ops[o].pages)[ops[o].cursor + 1]
       IN  /\ CallDone(ops[o].calls[k])
           /\ task_states' = StateAfterResult(task_states, ops[o], k)
           /\ ops' = [ops EXCEPT ![o] =
                        [OpAfterResult(@, k, "content")
                           EXCEPT !.pc = "seq_result", !.cursor = @ + 1]]
    /\ UNCHANGED <<rest, provider_config, disk>>

\* image.py:348-368: both phases are over
GI_Finish(o) ==
    /\ ops[o].kind = "generate"
    /\ LET other == OtherPos(ops[o].pages)
       IN  \/ ops[o].pc = "hc_collect"
              /\ ops[o].collected = {other[i] : i \in 1..Len(other)}
           \/ ops[o].pc = "seq_result" /\ ops[o].cursor = Len(other)
    /\ ops' = [ops EXCEPT ![o] = Finish(@)]
    /\ UNCHANGED <<rest, provider_config, task_states, disk>>

\* ------------------------------------------------- one run, nothing else
NewRun(pages, user_images) ==
    [IdleOp EXCEPT !.kind = "generate", !.pc = "created", !.pages = pages,
                   !.user_images = user_images,
                   !.calls = [k \in 1..Len(pages) |-> NoCall]]

InitRun ==
    /\ RestIdle
    /\ provider_config \in [high_concurrency : BOOLEAN, max_concurrent : PoolSettings]
    /\ task_states = [t \in {} |-> None]
    /\ disk = EmptyMap
    /\ \E pages \in PageLists :
         ops = [o \in Ops |-> IF o = 1 THEN NewRun(pages, <<>>) ELSE IdleOp]

NextRun ==
    \/ GI_Begin(1)
    \/ GI_CoverCall(1)
    \/ GI_CoverResult(1)
    \/ GI_AfterCover(1)
    \/ GI_Generating(1)
    \/ \E k \in 1..MaxPages : GI_Collect(1, k)
    \/ GI_SeqProgress(1)
    \/ GI_SeqCall(1)
    \/ GI_SeqResult(1)
    \/ GI_Finish(1)
    \/ \E k \in 1..MaxPages : WorkerStart(1, k)
    \/ \E k \in 1..MaxPages : Attempt(1, k)

SpecRun == InitRun /\ [][NextRun]_vars

\* ------------------------------------ one run, with or without user images
\* api.py:80-88, 103-104: the request's user_images, base64-decoded
UserImageLists == {<<>>, <<Upload(1), Upload(2)>>}

InitRef ==
    /\ RestIdle
    /\ provider_config \in [high_concurrency : BOOLEAN, max_concurrent : {None}]
    /\ task_states = [t \in {} |-> None]
    /\ disk = EmptyMap
    /\ \E pages \in PageLists, user_images \in UserImageLists :
         ops = [o \in Ops |-> IF o = 1 THEN NewRun(pages, user_images) ELSE IdleOp]

SpecRef == InitRef /\ [][NextRun]_vars

\* --------------------------------------------------- retry_single_image
\* image.py:457-470: the stored cover, else the cover file on disk
SingleReferenceMemoryOnly(use_reference) ==
    IF use_reference /\ HasTask THEN task_states[TaskId].cover_image ELSE None
SingleReference(use_reference) ==
    LET stored == IF use_reference /\ HasTask
                  THEN task_states[TaskId].cover_image ELSE None
    IN  IF use_reference /\ stored = None /\ 0 \in DOMAIN disk THEN disk[0] ELSE stored

\* image.py:477-482 and 560-565: a successful retry
StateAfterRetrySuccessKeepsFailed(ts, index) ==
    IF TaskId \in DOMAIN ts THEN SetGenerated(ts, index, Filename(index)) ELSE ts
StateAfterRetrySuccess(ts, index) ==
    IF TaskId \in DOMAIN ts
    THEN [SetGenerated(ts, index, Filename(index))
            EXCEPT ![TaskId].failed = Del(@, index)]
    ELSE ts

\* image.py:444-475 (regenerate_image, image.py:615-624, is the same call)
CallRetrySingle(o, kind, page, use_reference) ==
    /\ ops[o].kind = "none"
    /\ LET call == EnterCall(o, 1, page, SingleReference(use_reference), <<>>)
       IN  ops' = [ops EXCEPT ![o] =
                     [IdleOp EXCEPT !.kind = kind, !.pages = <<page>>,
                                    !.use_reference = use_reference,
                                    !.calls = <<call>>,
                                    !.pc = IF call.st = "raised" THEN "raised"
                                           ELSE "rs_call"]]
    /\ UNCHANGED <<rest, provider_config, task_states, disk>>

\* image.py:477-501
RS_ResultRecordsFailure(o) ==
    /\ ops[o].kind \in {"retry_single", "regenerate"}
    /\ ops[o].pc = "rs_call"
    /\ CallDone(ops[o].calls[1])
    /\ LET call == ops[o].calls[1]
           index == ops[o].pages[1].index
       IN  IF call.st = "ok"
           THEN /\ task_states' = StateAfterRetrySuccess(task_states, index)
                /\ ops' = [ops EXCEPT ![o].pc = "returned",
                             ![o].sync_log = Synced(ops[o], 0).sync_log,
                             ![o].sync_errors = Synced(ops[o], 0).sync_errors,
                             ![o].result = [success |-> TRUE, index |-> index,
                                            image_url |-> <<"url", TaskId, Filename(index)>>]]
           ELSE /\ task_states' = SetFailed(task_states, index, call.error)
                /\ ops' = [ops EXCEPT ![o].pc = "returned",
                             ![o].result = [success |-> FALSE, index |-> index,
                                            error |-> call.error, retryable |-> TRUE]]
    /\ UNCHANGED <<rest, provider_config, disk>>
RS_Result(o) ==
    /\ ops[o].kind \in {"retry_single", "regenerate"}
    /\ ops[o].pc = "rs_call"
    /\ CallDone(ops[o].calls[1])
    /\ LET call == ops[o].calls[1]
           index == ops[o].pages[1].index
       IN  IF call.st = "ok"
           THEN /\ task_states' = StateAfterRetrySuccess(task_states, index)
                /\ ops' = [ops EXCEPT ![o].pc = "returned",
                             ![o].sync_log = Synced(ops[o], 0).sync_log,
                             ![o].sync_errors = Synced(ops[o], 0).sync_errors,
                             ![o].result = [success |-> TRUE, index |-> index,
                                            image_url |-> <<"url", TaskId, Filename(index)>>]]
           ELSE /\ UNCHANGED task_states
                /\ ops' = [ops EXCEPT ![o].pc = "returned",
                             ![o].result = [success |-> FALSE, index |-> index,
                                            error |-> call.error, retryable |-> TRUE]]
    /\ UNCHANGED <<rest, provider_config, disk>>

\* --------------------------------------------------- retry_failed_images
\* image.py:511-523
BatchReference ==
    LET stored == IF HasTask THEN task_states[TaskId].cover_image ELSE None
    IN  IF stored = None /\ 0 \in DOMAIN disk THEN disk[0] ELSE stored

CallRetryFailed(o, pages) ==
    /\ ops[o].kind = "none"
    /\ ops' = [ops EXCEPT ![o] =
                 [IdleOp EXCEPT !.kind = "retry_failed", !.pc = "created",
                                !.pages = pages,
                                !.calls = [k \in 1..Len(pages) |-> NoCall]]]
    /\ UNCHANGED <<rest, provider_config, task_states, disk>>

\* image.py:511-535: the first next(): the reference image, then retry_start
RF_Begin(o) ==
    /\ ops[o].kind = "retry_failed"
    /\ ops[o].pc = "created"
    /\ ops' = [ops EXCEPT ![o] =
                 [Emit(@, [event |-> "retry_start", total |-> Len(@.pages)])
                    EXCEPT !.pc = "retry_start", !.cover_image_data = BatchReference]]
    /\ UNCHANGED <<rest, provider_config, task_states, disk>>

\* image.py:537-553: every page goes to a pool of MAX_CONCURRENT threads
RF_Submit(o) ==
    /\ ops[o].kind = "retry_failed"
    /\ ops[o].pc = "retry_start"
    /\ ops' = [ops EXCEPT ![o].pc = "rf_wait",
                          ![o].max_workers = MAX_CONCURRENT,
                          ![o].calls = [k \in DOMAIN @ |->
                                          QueuedCall(ops[o].cover_image_data, <<>>)]]
    /\ UNCHANGED <<rest, provider_config, task_states, disk>>

\* image.py:555-597
RF_CollectSilentFailure(o, k) ==
    /\ ops[o].kind = "retry_failed"
    /\ ops[o].pc = "rf_wait"
    /\ k \in DOMAIN ops[o].calls \ ops[o].collected
    /\ CallDone(ops[o].calls[k])
    /\ LET call == ops[o].calls[k]
           index == ops[o].pages[k].index
       IN  IF call.st = "ok"
           THEN /\ task_states' = StateAfterRetrySuccess(task_states, index)
                /\ ops' = [ops EXCEPT ![o] =
                             [Emit(@, CompleteEvent(index, "none"))
                                EXCEPT !.success_count = @ + 1,
                                       !.collected = @ \cup {k}]]
           ELSE /\ UNCHANGED task_states
                /\ ops' = [ops EXCEPT ![o].failed_count = @ + 1,
                                      ![o].collected = @ \cup {k}]
    /\ UNCHANGED <<rest, provider_config, disk>>
RF_Collect(o, k) ==
    /\ ops[o].kind = "retry_failed"
    /\ ops[o].pc = "rf_wait"
    /\ k \in DOMAIN ops[o].calls \ ops[o].collected
    /\ CallDone(ops[o].calls[k])
    /\ LET call == ops[o].calls[k]
           index == ops[o].pages[k].index
       IN  IF call.st = "ok"
           THEN /\ task_states' = StateAfterRetrySuccess(task_states, index)
                /\ ops' = [ops EXCEPT ![o] =
                             [Emit(@, CompleteEvent(index, "none"))
                                EXCEPT !.success_count = @ + 1,
                                       !.collected = @ \cup {k}]]
           ELSE /\ UNCHANGED task_states
                /\ ops' = [ops EXCEPT ![o] =
                             [Emit(@, ErrorEvent(index, "none", call.error))
                                EXCEPT !.failed_count = @ + 1,
                                       !.collected = @ \cup {k}]]
    /\ UNCHANGED <<rest, provider_config, disk>>

\* image.py:599-613
RF_FinishCountsPages(o) ==
    /\ ops[o].kind = "retry_failed"
    /\ ops[o].pc = "rf_wait"
    /\ ops[o].collected = DOMAIN ops[o].calls
    /\ ops' = [ops EXCEPT ![o] =
                 [Emit(@, [event |-> "retry_finish",
                           success |-> (@.failed_count = 0),
                           total |-> Len(@.pages),
                           completed |-> Len(@.pages),
                           failed |-> @.failed_count])
                    EXCEPT !.pc = "finished",
                           !.sync_log = Synced(ops[o], Len(ops[o].events)).sync_log,
                           !.sync_errors = Synced(ops[o], Len(ops[o].events)).sync_errors]]
    /\ UNCHANGED <<rest, provider_config, task_states, disk>>
RF_Finish(o) ==
    /\ ops[o].kind = "retry_failed"
    /\ ops[o].pc = "rf_wait"
    /\ ops[o].collected = DOMAIN ops[o].calls
    /\ ops' = [ops EXCEPT ![o] =
                 [Emit(@, [event |-> "retry_finish",
                           success |-> (@.failed_count = 0),
                           total |-> Len(@.pages),
                           completed |-> @.success_count,
                           failed |-> @.failed_count])
                    EXCEPT !.pc = "finished",
                           !.sync_log = Synced(ops[o], Len(ops[o].events)).sync_log,
                           !.sync_errors = Synced(ops[o], Len(ops[o].events)).sync_errors]]
    /\ UNCHANGED <<rest, provider_config, task_states, disk>>

\* ------------------------------ one retry call on a task, nothing else
\* str(e) that an earlier run recorded for the page with this index
PriorError(index) == <<"err", 0, index, 4>>
\* the bytes a regenerate_image of page 0 wrote over the cover's file
RegeneratedCover == <<"img", 0, 0, 1>>

\* the task's state as an earlier run over the pages 0..MaxIndex left it, in
\* which every content page failed and the cover was generated or failed too
StateAfterRun(cover_ok) ==
    [total |-> MaxIndex + 1,
     generated |-> IF cover_ok THEN [i \in {0} |-> Filename(0)] ELSE EmptyMap,
     failed |-> [i \in (IF cover_ok THEN 1..MaxIndex ELSE 0..MaxIndex) |-> PriorError(i)],
     cover_image |-> IF cover_ok THEN OldCover ELSE None]

\* what a retry request finds: <<self._task_states, the task directory>>.
\* The state is lost when the process was restarted since the run.
StoresBeforeRetry ==
    {<<[t \in {} |-> None], EmptyMap>>,
     <<[t \in {} |-> None], [i \in {0} |-> OldCover]>>,
     <<[t \in {TaskId} |-> StateAfterRun(FALSE)], EmptyMap>>,
     <<[t \in {TaskId} |-> StateAfterRun(TRUE)], [i \in {0} |-> OldCover]>>,
     <<[t \in {TaskId} |-> StateAfterRun(TRUE)], [i \in {0} |-> RegeneratedCover]>>}

\* api.py:171-198, 244-263: POST /retry or POST /regenerate
InitSingle ==
    /\ RestIdle
    /\ provider_config \in [high_concurrency : {FALSE}, max_concurrent : {None}]
    /\ \E store \in StoresBeforeRetry : task_states = store[1] /\ disk = store[2]
    /\ ops = [o \in Ops |-> IdleOp]

NextSingle ==
    \/ \E kind \in {"retry_single", "regenerate"}, page \in Page,
          use_reference \in BOOLEAN :
         CallRetrySingle(1, kind, page, use_reference)
    \/ RS_Result(1)
    \/ Attempt(1, 1)

SpecSingle == InitSingle /\ [][NextSingle]_vars

\* api.py:200-240: POST /retry-failed
InitRetry ==
    /\ RestIdle
    /\ provider_config \in [high_concurrency : {FALSE}, max_concurrent : {None}]
    /\ \E store \in StoresBeforeRetry : task_states = store[1] /\ disk = store[2]
    /\ \E pages \in PageLists :
         ops = [o \in Ops |->
                  IF o = 1
                  THEN [IdleOp EXCEPT !.kind = "retry_failed", !.pc = "created",
                                      !.pages = pages,
                                      !.calls = [k \in 1..Len(pages) |-> NoCall]]
                  ELSE IdleOp]

NextRetry ==
    \/ RF_Begin(1)
    \/ RF_Submit(1)
    \/ \E k \in 1..MaxPages : RF_Collect(1, k)
    \/ RF_Finish(1)
    \/ \E k \in 1..MaxPages : WorkerStart(1, k)
    \/ \E k \in 1..MaxPages : Attempt(1, k)

SpecRetry == InitRetry /\ [][NextRetry]_vars

\* ------------------------------------ operations on one task, overlapping
\* api.py:70-128: POST /generate hands the request's pages to generate_images
CallGenerateImages(o, pages) ==
    /\ ops[o].kind = "none"
    /\ ops' = [ops EXCEPT ![o] = NewRun(pages, <<>>)]
    /\ UNCHANGED <<rest, provider_config, task_states, disk>>

OverlapPage == [index : {0, 1}, has_prompt : BOOLEAN]
OverlapPageLists == SeqsUpTo(OverlapPage, MaxOverlapPages) \ {<<>>}

\* the requests arrive one after the other; each may arrive while the
\* previous one is still being served
MayCall(o) == \A j \in Ops : j < o => ops[j].kind # "none"

Init ==
    /\ RestIdle
    /\ provider_config \in [high_concurrency : BOOLEAN, max_concurrent : {None}]
    /\ task_states = [t \in {} |-> None]
    /\ disk \in {EmptyMap, [i \in {0} |-> OldCover]}
    /\ ops = [o \in Ops |-> IdleOp]

OpStep(o) ==
    \/ GI_Begin(o)
    \/ GI_CoverCall(o)
    \/ GI_CoverResult(o)
    \/ GI_AfterCover(o)
    \/ GI_Generating(o)
    \/ \E k \in 1..MaxOverlapPages : GI_Collect(o, k)
    \/ GI_SeqProgress(o)
    \/ GI_SeqCall(o)
    \/ GI_SeqResult(o)
    \/ GI_Finish(o)
    \/ RS_Result(o)
    \/ RF_Begin(o)
    \/ RF_Submit(o)
    \/ \E k \in 1..MaxOverlapPages : RF_Collect(o, k)
    \/ RF_Finish(o)
    \/ \E k \in 1..MaxOverlapPages : WorkerStart(o, k)
    \/ \E k \in 1..MaxOverlapPages : Attempt(o, k)

Next ==
    \/ \E o \in Ops, pages \in OverlapPageLists :
         MayCall(o) /\ CallGenerateImages(o, pages)
    \/ \E o \in Ops, kind \in {"retry_single", "regenerate"},
          page \in OverlapPage, use_reference \in BOOLEAN :
         MayCall(o) /\ CallRetrySingle(o, kind, page, use_reference)
    \/ \E o \in Ops, pages \in OverlapPageLists :
         MayCall(o) /\ CallRetryFailed(o, pages)
    \/ \E o \in Ops : OpStep(o)

Spec == Init /\ [][Next]_vars

\* ------------------------- the consumer closes the stream of a run
\* generator.close() raises GeneratorExit at the yield the run is suspended
\* at. image.py:205: inside the with block, ThreadPoolExecutor.__exit__ calls
\* shutdown(wait=True), which waits for every submitted call and cancels none.
GI_CloseCancelling(o) ==
    /\ ops[o].kind = "generate"
    /\ ops[o].pc \in {"cover_progress", "cover_result", "batch_start",
                      "hc_progress", "hc_collect"}
    /\ ops' = [ops EXCEPT ![o].pc = "closed",
                          ![o].calls = [k \in DOMAIN @ |->
                                          IF @[k].st = "queued" THEN NoCall ELSE @[k]]]
    /\ UNCHANGED <<rest, provider_config, task_states, disk>>
GI_Close(o) ==
    /\ ops[o].kind = "generate"
    /\ ops[o].pc \in {"cover_progress", "cover_result", "batch_start",
                      "hc_progress", "hc_collect"}
    /\ ops' = [ops EXCEPT ![o].pc =
                 IF @ \in {"hc_progress", "hc_collect"} THEN "closing" ELSE "closed"]
    /\ UNCHANGED <<rest, provider_config, task_states, disk>>

\* shutdown(wait=True) returns: GeneratorExit leaves generate_images
GI_Closed(o) ==
    /\ ops[o].kind = "generate"
    /\ ops[o].pc = "closing"
    /\ \A k \in DOMAIN ops[o].calls :
         ops[o].calls[k].st # "none" => CallDone(ops[o].calls[k])
    /\ ops' = [ops EXCEPT ![o].pc = "closed"]
    /\ UNCHANGED <<rest, provider_config, task_states, disk>>

InitClose ==
    /\ RestIdle
    /\ provider_config \in [high_concurrency : {TRUE}, max_concurrent : PoolSettings]
    /\ task_states = [t \in {} |-> None]
    /\ disk = EmptyMap
    /\ \E pages \in PageLists :
         ops = [o \in Ops |-> IF o = 1 THEN NewRun(pages, <<>>) ELSE IdleOp]

NextClose ==
    \/ GI_Begin(1)
    \/ GI_CoverCall(1)
    \/ GI_CoverResult(1)
    \/ GI_AfterCover(1)
    \/ GI_Generating(1)
    \/ \E k \in 1..MaxPages : GI_Collect(1, k)
    \/ GI_Finish(1)
    \/ GI_Close(1)
    \/ GI_Closed(1)
    \/ \E k \in 1..MaxPages : WorkerStart(1, k)
    \/ \E k \in 1..MaxPages : Attempt(1, k)

SpecClose == InitClose /\ [][NextClose]_vars

\* ------------------------------------------- one generate_image call
service == <<provider_config, task_states, disk, ops>>

\* openai_compatible.py:152-153: the decorated generate_image is entered
GenerateImage ==
    /\ adapter.pc = "idle"
    /\ adapter' = [adapter EXCEPT !.pc = "calling"]
    /\ UNCHANGED <<stores, service, socket_getaddrinfo, resolving, service_instance, config_file>>

\* openai_compatible.py:21-39: one pass of the wrapper's loop. The upstream
\* answers with one of the responses; no request leaves for an unsupported
\* endpoint type.
Upstream(responses) ==
    /\ adapter.pc = "calling"
    /\ \E r \in IF Posts(adapter.endpoint_type) = 1 THEN responses ELSE {NoResponse} :
         adapter' = Wrapped(adapter, r,
                            GenerateImageOnce(adapter.endpoint_type, r, adapter.attempt + 1))
    /\ UNCHANGED <<stores, service, socket_getaddrinfo, resolving, service_instance, config_file>>

UpstreamAttempt == Upstream(Responses)

ServiceIdle ==
    /\ provider_config = ActiveProvider(NoConfig)
    /\ task_states = [t \in {} |-> None]
    /\ disk = EmptyMap
    /\ ops = [o \in Ops |-> IdleOp]

InitAdapter ==
    /\ ServiceIdle
    /\ StoresIdle
    /\ adapter \in {[NoAdapterCall EXCEPT !.endpoint_type = e] : e \in EndpointTypes}
    /\ socket_getaddrinfo = Original
    /\ resolving = [t \in Threads |-> NotResolving]
    /\ service_instance = <<"ImageService">>
    /\ config_file = NoConfig

NextAdapter ==
    \/ GenerateImage
    \/ UpstreamAttempt

SpecAdapter == InitAdapter /\ [][NextAdapter]_vars

\* --------------- one page: _generate_single_image over generate_image
\* image.py:408-409: if not image_data: raise Exception, inside the try block
EmptyDataError == <<"empty image data", 0, 0, 0>>

\* image.py:402-406: self.generator.generate(...); ImageGeneratorBase and the
\* factory are not part of the sources, generate is taken to run generate_image
GeneratorGenerate(o, k) ==
    /\ ops[o].kind # "none"
    /\ k \in DOMAIN ops[o].calls
    /\ ops[o].calls[k].st = "running"
    /\ adapter.pc \in {"idle"}
    /\ adapter' = [adapter EXCEPT !.pc = "calling", !.attempt = 0,
                                  !.last_error = None, !.result = None]
    /\ ops' = [ops EXCEPT ![o].calls[k] = Generate(@)]
    /\ UNCHANGED <<stores, provider_config, task_states, disk, socket_getaddrinfo, resolving,
                   service_instance, config_file>>

\* image.py:408-442: what _generate_single_image does with the adapter's result
GeneratorReturn(o, k) ==
    /\ ops[o].kind # "none"
    /\ k \in DOMAIN ops[o].calls
    /\ ops[o].calls[k].st = "running"
    /\ adapter.pc \in {"returned", "raised"}
    /\ LET call == ops[o].calls[k]
           res == adapter.result
           index == ops[o].pages[k].index
       IN  IF res.ok /\ res.value # EmptyBytes
           THEN /\ ops' = [ops EXCEPT ![o].calls[k] = CallSucceeded(call)]
                /\ disk' = WriteFile(disk, index, res.value)
           ELSE /\ ops' = [ops EXCEPT ![o].calls[k] =
                             CallFailed(call, IF res.ok THEN EmptyDataError
                                              ELSE res.value)]
                /\ UNCHANGED disk
    /\ adapter' = [adapter EXCEPT !.pc = "idle", !.response = NoResponse,
                                  !.last_error = None, !.result = None]
    /\ UNCHANGED <<stores, provider_config, task_states, socket_getaddrinfo, resolving,
                   service_instance, config_file>>

\* the upstream of the page's provider: it fails, or sends a base64 payload
PageResponses == {r \in Responses : r.body \in {"none", "data_b64"}}
PageUpstreamAttempt == Upstream(PageResponses)

InitPage ==
    /\ ServiceIdle
    /\ StoresIdle
    /\ adapter \in {[NoAdapterCall EXCEPT !.endpoint_type = e] : e \in EndpointTypes}
    /\ socket_getaddrinfo = Original
    /\ resolving = [t \in Threads |-> NotResolving]
    /\ service_instance = <<"ImageService">>
    /\ config_file = NoConfig

NextPage ==
    \/ \E page \in Page : CallRetrySingle(1, "retry_single", page, FALSE)
    \/ GeneratorGenerate(1, 1)
    \/ PageUpstreamAttempt
    \/ GeneratorReturn(1, 1)
    \/ RS_Result(1)

SpecPage == InitPage /\ [][NextPage]_vars

\* ----------------------- concurrent requests through force_ip_resolution
\* the requests each thread sends
MaxRequests == 2

\* openai_compatible.py:88-92: if not ip or ip == hostname: yield, return;
\* else original_getaddrinfo = socket.getaddrinfo
FIR_Enter(t) ==
    /\ resolving[t].pc = "out"
    /\ resolving[t].entered < MaxRequests
    /\ resolving' = [resolving EXCEPT ![t] =
                       IF @.ip = None \/ @.ip = Hostname
                       THEN [@ EXCEPT !.pc = "plain"]
                       ELSE [@ EXCEPT !.pc = "saved",
                                      !.original_getaddrinfo = socket_getaddrinfo]]
    /\ UNCHANGED <<stores, service, adapter, socket_getaddrinfo, service_instance, config_file>>

\* openai_compatible.py:98: socket.getaddrinfo = patched_getaddrinfo
FIR_Patch(t) ==
    /\ resolving[t].pc = "saved"
    /\ socket_getaddrinfo' = Patched(t, resolving[t].original_getaddrinfo)
    /\ resolving' = [resolving EXCEPT ![t].pc = "pinned"]
    /\ UNCHANGED <<stores, service, adapter, service_instance, config_file>>

\* openai_compatible.py:99-102: the request is over; finally:
\* socket.getaddrinfo = original_getaddrinfo
FIR_Exit(t) ==
    /\ resolving[t].pc \in {"plain", "pinned"}
    /\ socket_getaddrinfo' =
         IF resolving[t].pc = "pinned" THEN resolving[t].original_getaddrinfo
         ELSE socket_getaddrinfo
    /\ resolving' = [resolving EXCEPT ![t].pc = "out", ![t].entered = @ + 1,
                                      ![t].original_getaddrinfo = None]
    /\ UNCHANGED <<stores, service, adapter, service_instance, config_file>>

InitDns ==
    /\ ServiceIdle
    /\ StoresIdle
    /\ adapter = NoAdapterCall
    /\ socket_getaddrinfo = Original
    /\ \E ip \in ResolvedIps :
         resolving = [t \in Threads |-> [NotResolving EXCEPT !.ip = ip]]
    /\ service_instance = <<"ImageService">>
    /\ config_file = NoConfig

NextDns ==
    \/ \E t \in Threads : FIR_Enter(t)
    \/ \E t \in Threads : FIR_Patch(t)
    \/ \E t \in Threads : FIR_Exit(t)

SpecDns == InitDns /\ [][NextDns]_vars

\* ------------------------------- the singleton and the configuration
\* image.py:646-651: get_image_service(); ImageService.__init__ (image.py:21-62)
\* reads the active provider's configuration and starts with no task state
GetImageService ==
    /\ IF service_instance = None
       THEN /\ service_instance' = <<"ImageService">>
            /\ provider_config' = ActiveProvider(config_file)
            /\ task_states' = [t \in {} |-> None]
       ELSE UNCHANGED <<service_instance, provider_config, task_states>>
    /\ UNCHANGED <<stores, disk, ops, adapter, socket_getaddrinfo, resolving, config_file>>

\* api.py:710-722: every branch returns; the call of reset_image_service at
\* api.py:725-726 follows the return of the except block and is never reached
InstanceAfterUpdate(instance, success) == instance

\* api.py:702-737 with config.py:221-238: POST /config
UpdateConfig(data, success) ==
    /\ config_file' = IF success THEN data ELSE config_file
    /\ service_instance' = InstanceAfterUpdate(service_instance, success)
    /\ UNCHANGED <<stores, service, adapter, socket_getaddrinfo, resolving>>

InitConfig ==
    /\ provider_config = ActiveProvider(NoConfig)
    /\ task_states = [t \in {} |-> None]
    /\ disk = EmptyMap
    /\ ops = [o \in Ops |-> IdleOp]
    /\ adapter = NoAdapterCall
    /\ socket_getaddrinfo = Original
    /\ resolving = [t \in Threads |-> NotResolving]
    /\ service_instance = None
    /\ config_file \in Configs
    /\ StoresIdle

NextConfig ==
    \/ GetImageService
    \/ \E data \in Configs, success \in BOOLEAN : UpdateConfig(data, success)

SpecConfig == InitConfig /\ [][NextConfig]_vars

\* ------------------------- one operation, the history sync may raise
\* image.py:350-355, 483-487, 599-603: the operation's call of
\* get_history_service().scan_and_sync_task_images(task_id) raises, or not
InitSync ==
    /\ adapter = NoAdapterCall
    /\ socket_getaddrinfo = Original
    /\ resolving = [t \in Threads |-> NotResolving]
    /\ service_instance = <<"ImageService">>
    /\ config_file = NoConfig
    /\ history = NoHistory
    /\ key_store = NoKeyStore
    /\ sync_raises \in BOOLEAN
    /\ provider_config \in [high_concurrency : BOOLEAN, max_concurrent : {None}]
    /\ \E store \in {<<[t \in {} |-> None], EmptyMap>>,
                     <<[t \in {TaskId} |-> StateAfterRun(FALSE)], EmptyMap>>} :
         task_states = store[1] /\ disk = store[2]
    /\ ops = [o \in Ops |-> IdleOp]

NextSync ==
    \/ \E pages \in OverlapPageLists : CallGenerateImages(1, pages)
    \/ \E kind \in {"retry_single", "regenerate"}, page \in OverlapPage,
          use_reference \in BOOLEAN :
         CallRetrySingle(1, kind, page, use_reference)
    \/ \E pages \in OverlapPageLists : CallRetryFailed(1, pages)
    \/ OpStep(1)

SpecSync == InitSync /\ [][NextSync]_vars

\* ------------------------------------------------------ HistoryService
\* uuid.uuid4() gives a fresh id; the model draws MaxRecords of them
MaxRecords == 2
RecordIds == 1..MaxRecords

\* the task_id of a record: POST /history passes the request's task_id
RecordTaskIds == {None, <<TaskId>>}

\* history.py:119-131, 287-304: the fields of a new record that the model keeps
NewRecord(task_id) == [task_id |-> task_id, images |-> None]

\* history.py:82-115: the test of every method of the public interface
UsesSupabase(h) == h.supabase /\ h.enable_supabase

\* the operation that starts now has used neither store yet
Began(h) == [h EXCEPT !.touched = {}]
Touch(h, store) == [h EXCEPT !.touched = @ \cup {store}]
Ended(h, op, result) == [h EXCEPT !.last = [op |-> op, result |-> result]]

\* history.py:140-161: fails says that the request to Supabase raised
GetRecordSupabase(h, record_id, fails) ==
    IF ~fails /\ record_id \in DOMAIN h.remote THEN h.remote[record_id] ELSE None

\* history.py:323-331
GetRecordFile(h, record_id) ==
    IF record_id \in DOMAIN h.files THEN h.files[record_id] ELSE None

\* history.py:87-90
GetRecordResult(h, record_id, fails) ==
    IF UsesSupabase(h) THEN GetRecordSupabase(h, record_id, fails)
    ELSE GetRecordFile(h, record_id)

\* the store that a method of the public interface works on
StoreUsed(h) == IF UsesSupabase(h) THEN "supabase" ELSE "file"

\* history.py:41-73: credentials says that url and key were passed, connects
\* that create_client gave a client (or that the environment names one)
ModeAfter(h, mode, credentials, connects) ==
    IF mode = "supabase"
    THEN IF credentials /\ ~connects THEN h
         ELSE [h EXCEPT !.supabase = @ \/ connects,
                        !.enable_supabase = h.supabase \/ connects \/ @]
    ELSE [h EXCEPT !.enable_supabase = FALSE]

SetStorageModeResult(h, mode, credentials, connects) ==
    IF mode = "supabase"
    THEN IF credentials /\ ~connects THEN FALSE ELSE h.supabase \/ connects
    ELSE TRUE

\* history.py:41-73: set_storage_mode(mode, url, key)
SetStorageMode(mode, credentials, connects) ==
    /\ history' = Ended(Began(ModeAfter(history, mode, credentials, connects)),
                        "set_storage_mode",
                        SetStorageModeResult(history, mode, credentials, connects))
    /\ UNCHANGED <<service, adapter, socket_getaddrinfo, resolving,
                   service_instance, config_file, sync_raises, key_store>>

\* history.py:287-321
CreateRecordFile(h, record_id, task_id) ==
    [Touch(h, "file") EXCEPT !.files = Put(@, record_id, NewRecord(task_id))]

\* history.py:119-138: when the insert raises, the record goes to the file
\* store under a second fresh id
CreateRecordSupabase(h, record_id, task_id, fails) ==
    IF fails
    THEN CreateRecordFile(Touch(h, "supabase"), record_id, task_id)
    ELSE [Touch(h, "supabase") EXCEPT !.remote = Put(@, record_id, NewRecord(task_id))]

\* history.py:82-85 with api.py:348: POST /history
CreateRecord(task_id, fails) ==
    /\ history.uuids < MaxRecords
    /\ LET record_id == history.uuids + 1
           h == [Began(history) EXCEPT !.uuids = record_id,
                                       !.returned = Put(@, record_id, StoreUsed(history))]
       IN  history' = Ended(IF UsesSupabase(history)
                            THEN CreateRecordSupabase(h, record_id, task_id, fails)
                            ELSE CreateRecordFile(h, record_id, task_id),
                            "create_record", record_id)
    /\ UNCHANGED <<service, adapter, socket_getaddrinfo, resolving,
                   service_instance, config_file, sync_raises, key_store>>

\* history.py:87-90 with api.py:392: GET /history/<record_id>
GetRecord(record_id, fails) ==
    /\ history' = Ended(Touch(Began(history), StoreUsed(history)), "get_record",
                        GetRecordResult(history, record_id, fails))
    /\ UNCHANGED <<service, adapter, socket_getaddrinfo, resolving,
                   service_instance, config_file, sync_raises, key_store>>

\* history.py:163-182, 333-368: update_record(record_id, images=...)
UpdateRecord(h, record_id, images, fails) ==
    IF UsesSupabase(h)
    THEN IF ~fails /\ record_id \in DOMAIN h.remote
         THEN [Touch(h, "supabase") EXCEPT
                 !.remote[record_id] = [task_id |-> <<TaskId>>, images |-> images]]
         ELSE Touch(h, "supabase")
    ELSE IF record_id \in DOMAIN h.files
         THEN [Touch(h, "file") EXCEPT
                 !.files[record_id] = [task_id |-> <<TaskId>>, images |-> images]]
         ELSE Touch(h, "file")

\* history.py:184-193, 370-397: Supabase answers a delete of an absent row
\* like any other; the file store also removes the task's directory
DeleteRecord(record_id, fails) ==
    /\ LET h == Touch(Began(history), StoreUsed(history))
           found == IF UsesSupabase(history) THEN ~fails
                    ELSE record_id \in DOMAIN history.files
       IN  /\ history' =
                Ended(IF ~found THEN h
                      ELSE IF UsesSupabase(history)
                      THEN [h EXCEPT !.remote = Del(@, record_id),
                                     !.returned = Del(@, record_id)]
                      ELSE [h EXCEPT !.files = Del(@, record_id),
                                     !.returned = Del(@, record_id)],
                      "delete_record", found)
           /\ disk' = IF /\ found
                         /\ ~UsesSupabase(history)
                         /\ history.files[record_id].task_id # None
                      THEN EmptyMap ELSE disk
    /\ UNCHANGED <<provider_config, task_states, ops, adapter, socket_getaddrinfo,
                   resolving, service_instance, config_file, sync_raises, key_store>>

\* history.py:450-455: the image files of the task's directory
ImageFiles == <<"files", DOMAIN disk>>

\* the records of a store that carry the task's id
RecordsOfTask(records) == {id \in DOMAIN records : records[id].task_id = <<TaskId>>}

\* history.py:469-479: the index lists the newest record first
FirstInIndex(ids) == CHOOSE id \in ids : \A other \in ids : other <= id

\* history.py:438-515 with api.py:524-533: GET /history/scan/<task_id>, and
\* the call that ends the operations of ImageService; task_dir says that the
\* task's directory exists, fails that the requests to Supabase raise
ScanAndSync(task_dir, fails) ==
    /\ LET h == Began(history)
           looked == IF h.supabase THEN Touch(h, "supabase") ELSE Touch(h, "file")
           found == IF h.supabase THEN RecordsOfTask(h.remote)
                    ELSE RecordsOfTask(h.files)
           no_record == [success |-> TRUE, record_id |-> None]
           error == [success |-> FALSE, record_id |-> None]
       IN  IF ~task_dir
           THEN history' = Ended(h, "scan", error)
           ELSE IF h.supabase /\ fails
           THEN history' = Ended(looked, "scan", error)
           ELSE IF found = {}
           THEN history' = Ended(looked, "scan", no_record)
           ELSE \E record_id \in (IF h.supabase THEN found ELSE {FirstInIndex(found)}) :
                  LET read == Touch(looked, StoreUsed(h))
                  IN  IF GetRecordResult(h, record_id, fails) = None
                      THEN history' = Ended(read, "scan", no_record)
                      ELSE history' =
                             Ended(UpdateRecord(read, record_id, ImageFiles, fails),
                                   "scan", [success |-> TRUE, record_id |-> record_id])
    /\ UNCHANGED <<service, adapter, socket_getaddrinfo, resolving,
                   service_instance, config_file, sync_raises, key_store>>

\* history.py:11-39: the service starts with the client that the environment
\* gives, or without one; the task's directory holds a cover or nothing
InitHistory ==
    /\ provider_config = ActiveProvider(NoConfig)
    /\ task_states = [t \in {} |-> None]
    /\ disk \in {EmptyMap, [i \in {0} |-> OldCover]}
    /\ ops = [o \in Ops |-> IdleOp]
    /\ adapter = NoAdapterCall
    /\ socket_getaddrinfo = Original
    /\ resolving = [t \in Threads |-> NotResolving]
    /\ service_instance = <<"ImageService">>
    /\ config_file = NoConfig
    /\ sync_raises = FALSE
    /\ key_store = NoKeyStore
    /\ \E client \in BOOLEAN :
         history = [NoHistory EXCEPT !.supabase = client, !.enable_supabase = client]

NextHistory ==
    \/ \E mode \in {"supabase", "local"}, credentials \in BOOLEAN, connects \in BOOLEAN :
         SetStorageMode(mode, credentials, connects)
    \/ \E task_id \in RecordTaskIds, fails \in BOOLEAN : CreateRecord(task_id, fails)
    \/ \E record_id \in RecordIds, fails \in BOOLEAN : GetRecord(record_id, fails)
    \/ \E record_id \in RecordIds, fails \in BOOLEAN : DeleteRecord(record_id, fails)
    \/ \E task_dir \in BOOLEAN, fails \in BOOLEAN : ScanAndSync(task_dir, fails)

SpecHistory == InitHistory /\ [][NextHistory]_vars

\* ------------------------------------------- ConfigService: api keys
\* the api_key strings: the empty string and two keys
EmptyStr == <<"str", 0>>
ApiKeys == {<<"str", 1>>, <<"str", 2>>}

\* api.py:639-645: _mask_api_key keeps the ends of a key and stars the rest
MaskApiKey(key) == IF key \in {None, EmptyStr} THEN EmptyStr ELSE <<"mask", key[2]>>

\* api.py:648-661: every provider goes out with api_key '' and the mask
PrepareProvidersForResponse(providers) ==
    [name \in DOMAIN providers |->
       [api_key |-> EmptyStr, api_key_masked |-> MaskApiKey(providers[name])]]

\* what a client may post for a provider: no api_key field, '' or a key
PostedProvider == [api_key : {None, EmptyStr} \cup ApiKeys, api_key_masked : {EmptyStr}]
PostedGroups ==
    UNION {[names -> PostedProvider] : names \in SUBSET ProviderNames}

\* config.py:240-276: the api_key of each provider in the file that is
\* written; providers that the posted group does not name are dropped
SaveYamlFileOverwrites(existing, providers) ==
    [name \in DOMAIN providers |->
       IF providers[name].api_key = None THEN None ELSE providers[name].api_key]
SaveYamlFile(existing, providers) ==
    [name \in DOMAIN providers |->
       IF providers[name].api_key \in {EmptyStr, None}
       THEN IF name \in DOMAIN existing /\ existing[name] \notin {None, EmptyStr}
            THEN existing[name]
            ELSE None
       ELSE providers[name].api_key]

\* config.py:139-179: the api_key column after the upserts; a row_data
\* without api_key leaves the column of an existing row as it is, and no
\* modelled key starts with 'sk-****'
SaveProviderGroupSupabase(rows, providers) ==
    [name \in DOMAIN rows \cup DOMAIN providers |->
       IF name \in DOMAIN providers /\ providers[name].api_key \notin {None, EmptyStr}
       THEN providers[name].api_key
       ELSE IF name \in DOMAIN rows THEN rows[name] ELSE None]

\* config.py:76-83: a row's provider_config has api_key = row.get('api_key', '')
RowsAsProviders(rows) ==
    [name \in DOMAIN rows |-> IF rows[name] = None THEN EmptyStr ELSE rows[name]]

\* the providers of the file as the group that a migration saves
FileAsGroup(file) ==
    [name \in DOMAIN file |-> [api_key |-> file[name], api_key_masked |-> EmptyStr]]

\* api.py:667-698 with config.py:33-38, 49-117, 183-219: GET /api/config.
\* On Supabase an empty table is first filled from the local files; fails
\* says that the request to Supabase raised, and the files are read instead
GetConfig(fails) ==
    /\ LET ks == key_store
           migrates == ks.backend = "supabase" /\ ~fails
                         /\ ks.remote = EmptyMap /\ ks.file # EmptyMap
           full == IF ks.backend = "file" \/ fails \/ migrates
                   THEN ks.file ELSE RowsAsProviders(ks.remote)
       IN  key_store' =
             [ks EXCEPT !.remote = IF migrates
                                   THEN SaveProviderGroupSupabase(@, FileAsGroup(ks.file))
                                   ELSE @,
                        !.response = PrepareProvidersForResponse(full),
                        !.op = "get"]
    /\ UNCHANGED <<service, adapter, socket_getaddrinfo, resolving,
                   service_instance, config_file, history, sync_raises>>

\* api.py:702-722 with config.py:40-45, 119-137, 221-238: POST /api/config
\* with the providers of one group; fails says that Supabase raised
UpdateFullConfig(providers, fails) ==
    /\ LET ks == key_store
       IN  key_store' =
             [ks EXCEPT !.file = IF ks.backend = "file"
                                 THEN SaveYamlFile(@, providers) ELSE @,
                        !.remote = IF ks.backend = "supabase" /\ ~fails
                                   THEN SaveProviderGroupSupabase(@, providers) ELSE @,
                        !.posted = providers,
                        !.op = "post"]
    /\ UNCHANGED <<service, adapter, socket_getaddrinfo, resolving,
                   service_instance, config_file, history, sync_raises>>

\* the client posts a group of its own, or the one it was sent
PostConfig(fails) ==
    \E providers \in PostedGroups \cup {key_store.response} :
        UpdateFullConfig(providers, fails)

\* config.py:12-31: the backend is chosen when the service is made; the
\* provider file is as the user left it, the Supabase table is empty
InitKeys ==
    /\ ServiceIdle
    /\ adapter = NoAdapterCall
    /\ socket_getaddrinfo = Original
    /\ resolving = [t \in Threads |-> NotResolving]
    /\ service_instance = <<"ImageService">>
    /\ config_file = NoConfig
    /\ history = NoHistory
    /\ sync_raises = FALSE
    /\ \E backend \in {"file", "supabase"}, names \in SUBSET ProviderNames :
         \E file \in [names -> {None, EmptyStr} \cup ApiKeys] :
             key_store = [NoKeyStore EXCEPT !.backend = backend, !.file = file]

NextKeys ==
    \/ \E fails \in BOOLEAN : GetConfig(fails)
    \/ \E fails \in BOOLEAN : PostConfig(fails)

SpecKeys == InitKeys /\ [][NextKeys]_vars

\* ============================================================ properties
Run == ops[1]
Sequential == ~provider_config.high_concurrency
Concurrent == provider_config.high_concurrency

DistinctIndices(pages) ==
    \A i, j \in DOMAIN pages : i # j => pages[i].index # pages[j].index
PageIndexSet(pages) == {pages[k].index : k \in DOMAIN pages}

\* the input list's cover and content pages, read off the list itself
IsContentPage(page) == page.index # 0
ContentIndices(pages) ==
    LET content == SelectSeq(pages, IsContentPage)
    IN  [i \in 1..Len(content) |-> content[i].index]
NumContent(pages) == Len(ContentIndices(pages))
ContentPositions(pages) == {k \in DOMAIN pages : pages[k].index # 0}
FirstContent(pages, n) ==
    {k \in ContentPositions(pages) :
       Cardinality({j \in ContentPositions(pages) : j < k}) < n}
HasCover(pages) == \E k \in DOMAIN pages : pages[k].index = 0
OneCover(pages) == Cardinality({k \in DOMAIN pages : pages[k].index = 0}) = 1

IsResult(e) == e.event \in {"complete", "error"}
IsContentResult(e) == IsResult(e) /\ e.index # 0
IsCoverResult(e) == IsResult(e) /\ e.index = 0
IsGenerating(e) == e.event = "progress" /\ e.status = "generating"
IsFinish(e) == e.event = "finish"
ContentResults(events) == SelectSeq(events, IsContentResult)
GeneratingEvents(events) == SelectSeq(events, IsGenerating)
EventIndices(events) == [i \in 1..Len(events) |-> events[i].index]
IsPrefix(s, t) == Len(s) <= Len(t) /\ \A i \in 1..Len(s) : s[i] = t[i]
CountWhere(events, index, event) ==
    Cardinality({i \in 1..Len(events) :
                   events[i].event = event /\ events[i].index = index})

\* the stream has been consumed to its end: the generator returned after
\* finish, or an exception left it
RunFinished == Run.kind = "generate" /\ Run.pc = "finished"
RunEnded == Run.kind = "generate" /\ Run.pc \in {"finished", "raised"}

\* C1: after a run over pages with pairwise distinct indices has emitted
\* finish, the keys of generated and of failed are disjoint and together are
\* exactly the input page indices.
C1_GeneratedFailedPartition ==
    (RunFinished /\ DistinctIndices(Run.pages)) =>
        /\ DOMAIN Generated \cap DOMAIN Failed = {}
        /\ DOMAIN Generated \cup DOMAIN Failed = PageIndexSet(Run.pages)

C1_Witness ==
    /\ RunFinished
    /\ DistinctIndices(Run.pages)
    /\ DOMAIN Generated # {}
    /\ DOMAIN Failed # {}

\* C2: in every reachable state, whatever operations on the task overlap, no
\* page index is a key of both generated and failed.
C2_GeneratedFailedDisjoint == DOMAIN Generated \cap DOMAIN Failed = {}

\* C3: in sequential mode the content pages are processed one at a time in
\* input order: each page's generating event comes right before its attempt
\* and its complete/error event right after, the complete/error events of the
\* content pages follow the input order, and all come after the cover's.
C3_SequentialOrder ==
    (Sequential /\ Run.kind = "generate") =>
        LET ev == Run.events
            res == ContentResults(ev)
            gen == GeneratingEvents(ev)
            started == {k \in ContentPositions(Run.pages) : Run.calls[k].st # "none"}
        IN  /\ IsPrefix(EventIndices(gen), ContentIndices(Run.pages))
            /\ IsPrefix(EventIndices(res), ContentIndices(Run.pages))
            /\ started = FirstContent(Run.pages, Cardinality(started))
            /\ Len(res) <= Cardinality(started)
            /\ Cardinality(started) <= Len(gen)
            /\ Len(gen) <= Len(res) + 1
            /\ \A i \in 1..Len(ev) :
                 IsContentResult(ev[i]) =>
                    /\ i > 1
                    /\ IsGenerating(ev[i - 1])
                    /\ ev[i - 1].index = ev[i].index
                    /\ HasCover(Run.pages) =>
                         \E j \in 1..(i - 1) : IsCoverResult(ev[j])
            /\ \A i \in 1..(Len(ev) - 1) :
                 IsGenerating(ev[i]) =>
                    IsContentResult(ev[i + 1]) /\ ev[i + 1].index = ev[i].index
            /\ \A i, j \in 1..Len(ev) :
                 (i < j /\ IsCoverResult(ev[j])) => ~IsContentResult(ev[i])
            /\ RunFinished => EventIndices(res) = ContentIndices(Run.pages)

C3_Witness ==
    /\ Sequential
    /\ RunFinished
    /\ NumContent(Run.pages) = 2
    /\ DistinctIndices(Run.pages)
    /\ \E i \in 1..Len(Run.events) : Run.events[i].event = "error"

\* C4: in concurrent mode the generating events of the content pages are
\* emitted in input order and all of them before any complete/error event of
\* a content page, in whatever order the workers finish; then exactly one
\* complete or error event per content page follows, before finish.
C4_ConcurrentOrder ==
    (Concurrent /\ Run.kind = "generate") =>
        LET ev == Run.events
            res == ContentResults(ev)
            gen == GeneratingEvents(ev)
        IN  /\ IsPrefix(EventIndices(gen), ContentIndices(Run.pages))
            /\ Len(res) > 0 => EventIndices(gen) = ContentIndices(Run.pages)
            /\ \A i, j \in 1..Len(ev) :
                 (i < j /\ IsContentResult(ev[i])) => ~IsGenerating(ev[j])
            /\ \A index \in Indices \ {0} :
                 CountWhere(ev, index, "complete") + CountWhere(ev, index, "error")
                    <= Cardinality({k \in DOMAIN Run.pages :
                                      Run.pages[k].index = index})
            /\ RunFinished =>
                 /\ Len(res) = NumContent(Run.pages)
                 /\ IsFinish(ev[Len(ev)])
                 /\ \A i \in 1..(Len(ev) - 1) : ~IsFinish(ev[i])

C4_Witness ==
    /\ Concurrent
    /\ RunFinished
    /\ NumContent(Run.pages) = 2
    /\ EventIndices(ContentResults(Run.events)) # ContentIndices(Run.pages)
    /\ EventIndices(GeneratingEvents(Run.events)) = ContentIndices(Run.pages)

\* the stream of a sequential run with a cover in which every page succeeds,
\* up to the finish event
RECURSIVE ContentStream(_)
ContentStream(indices) ==
    IF indices = <<>> THEN <<>>
    ELSE <<ProgressEvent(Head(indices), "generating", "content"),
           CompleteEvent(Head(indices), "content")>> \o ContentStream(Tail(indices))

ExpectedStream(pages) ==
    <<ProgressEvent(0, "generating_cover", "cover"), CompleteEvent(0, "cover"),
      ProgressEvent(NoIndex, "batch_start", "content")>>
        \o ContentStream(ContentIndices(pages))

AllSucceeded == \A k \in DOMAIN Run.calls : Run.calls[k].st = "ok"

StreamIsExpected ==
    LET ev == Run.events
        n == NumContent(Run.pages)
    IN  /\ Len(ev) = 3 + 2 * n + 1
        /\ SubSeq(ev, 1, Len(ev) - 1) = ExpectedStream(Run.pages)
        /\ IsFinish(ev[Len(ev)])
        /\ ev[Len(ev)].success = TRUE
        /\ ev[Len(ev)].completed = n + 1
        /\ ev[Len(ev)].failed = 0

\* C5 (as stated): a sequential run with a cover and n content pages in which
\* every generation succeeds emits exactly generating_cover, complete(0),
\* batch_start, generating(i), complete(i) for each content page in input
\* order, and finish(success, completed = n + 1, failed = 0).
C5_SequentialStream_Original ==
    (Sequential /\ RunFinished /\ OneCover(Run.pages) /\ AllSucceeded) =>
        StreamIsExpected

\* C5 (amended): the same, for n >= 1 content pages; with no content page the
\* stream is generating_cover, complete(0), finish(success, completed = 1,
\* failed = 0), without batch_start.
C5_SequentialStream ==
    (Sequential /\ RunFinished /\ OneCover(Run.pages) /\ AllSucceeded) =>
        IF NumContent(Run.pages) >= 1
        THEN StreamIsExpected
        ELSE LET ev == Run.events
             IN  /\ Len(ev) = 3
                 /\ SubSeq(ev, 1, 2) = SubSeq(ExpectedStream(Run.pages), 1, 2)
                 /\ IsFinish(ev[3])
                 /\ ev[3].success = TRUE
                 /\ ev[3].completed = 1
                 /\ ev[3].failed = 0

C5_Witness ==
    /\ Sequential
    /\ RunFinished
    /\ OneCover(Run.pages)
    /\ NumContent(Run.pages) >= 1
    /\ AllSucceeded

\* C6: every run consumed to its end emits exactly one finish event, as its
\* last event; with pairwise distinct indices completed is the number of
\* complete events, failed the number of error events, completed + failed =
\* total = number of pages, failed_indices are the indices with an error
\* event, and success holds iff failed = 0.
C6_FinishSummary ==
    RunEnded =>
        LET ev == Run.events
            fin == ev[Len(ev)]
            completes == {i \in 1..Len(ev) : ev[i].event = "complete"}
            errors == {i \in 1..Len(ev) : ev[i].event = "error"}
        IN  /\ Len(ev) > 0
            /\ IsFinish(fin)
            /\ \A i \in 1..(Len(ev) - 1) : ~IsFinish(ev[i])
            /\ DistinctIndices(Run.pages) =>
                 /\ fin.completed = Cardinality(completes)
                 /\ fin.failed = Cardinality(errors)
                 /\ fin.completed + fin.failed = fin.total
                 /\ fin.total = Len(Run.pages)
                 /\ {fin.failed_indices[i] : i \in 1..Len(fin.failed_indices)}
                      = {ev[i].index : i \in errors}
                 /\ Len(fin.failed_indices) = Cardinality(errors)
                 /\ fin.success = (fin.failed = 0)

\* a call whose first attempt failed and a later one succeeded
RecoveredCall(call) ==
    /\ call.st = "ok"
    /\ Len(call.attempts) >= 2
    /\ call.attempts[1] # OK

EndsOnlyGenerated(k) ==
    LET index == Run.pages[k].index
    IN  /\ index \in DOMAIN Generated
        /\ index \notin DOMAIN Failed
        /\ CountWhere(Run.events, index, "complete") >= 1
        /\ CountWhere(Run.events, index, "error") = 0

\* C7 (as stated): a page whose first attempt fails and whose second, third or
\* fourth attempt succeeds ends the run in generated and not in failed, with a
\* complete event and no error event for its index.
C7_RecoveredPage_Original ==
    RunEnded =>
        \A k \in DOMAIN Run.calls : RecoveredCall(Run.calls[k]) => EndsOnlyGenerated(k)

\* C7 (amended): the same, for a run whose pages have pairwise distinct
\* indices (and that no other operation on the task overlaps).
C7_RecoveredPage ==
    (RunEnded /\ DistinctIndices(Run.pages)) =>
        \A k \in DOMAIN Run.calls : RecoveredCall(Run.calls[k]) => EndsOnlyGenerated(k)

C7_Witness ==
    /\ RunFinished
    /\ DistinctIndices(Run.pages)
    /\ \E k \in DOMAIN Run.calls :
         RecoveredCall(Run.calls[k]) /\ Len(Run.calls[k].attempts) = 4
    /\ DOMAIN Failed # {}

EndsOnlyFailed(k) ==
    LET index == Run.pages[k].index
        call == Run.calls[k]
        last == call.attempts[Len(call.attempts)]
    IN  /\ index \in DOMAIN Failed
        /\ index \notin DOMAIN Generated
        /\ Failed[index] = last
        /\ CountWhere(Run.events, index, "complete") = 0
        /\ \A i \in 1..Len(Run.events) :
             (Run.events[i].event = "error" /\ Run.events[i].index = index)
                => Run.events[i].message = last
        /\ CountWhere(Run.events, index, "error") >= 1

\* C8 (as stated): a page that fails on every attempt of the retry budget ends
\* the run in failed and not in generated, and failed[index] and the error
\* event carry the message of the final attempt.
C8_ExhaustedPage_Original ==
    RunEnded =>
        \A k \in DOMAIN Run.calls : Run.calls[k].st = "fail" => EndsOnlyFailed(k)

\* C8 (amended): the same, for a run whose pages have pairwise distinct
\* indices (and that no other operation on the task overlaps).
C8_ExhaustedPage ==
    (RunEnded /\ DistinctIndices(Run.pages)) =>
        \A k \in DOMAIN Run.calls : Run.calls[k].st = "fail" => EndsOnlyFailed(k)

C8_Witness ==
    /\ RunFinished
    /\ DistinctIndices(Run.pages)
    /\ \E k \in DOMAIN Run.calls :
         /\ Run.calls[k].st = "fail"
         /\ Failed[Run.pages[k].index] = ErrorMsg(1, k, 4)
    /\ DOMAIN Generated # {}

\* C9: one _generate_single_image call invokes the generator at most 4 times
\* (the first attempt plus 3 retries), never again after a success, and
\* returns failure only after 4 failed attempts; it always terminates: a
\* running call can always make its next attempt, every step of it is one
\* more attempt, and a call that has returned or raised never runs again.
C9_CallInvariant ==
    \A k \in DOMAIN Run.calls :
        LET call == Run.calls[k]
            n == Len(call.attempts)
        IN  /\ n <= 4
            /\ \A i \in 1..(n - 1) : call.attempts[i] # OK
            /\ call.st = "ok" <=> (n >= 1 /\ call.attempts[n] = OK)
            /\ call.st = "fail" =>
                 (n = 4 /\ \A i \in 1..4 : call.attempts[i] = ErrorMsg(1, k, i))
            /\ call.st = "running" =>
                 (n = call.retry_count /\ n <= 3 /\ ENABLED Attempt(1, k))
            /\ call.st \in {"none", "queued", "raised"} => n = 0

C9_CallStep ==
    \A k \in DOMAIN Run.calls :
        LET call == Run.calls[k]
            next == ops'[1].calls[k]
        IN  /\ CallDone(call) => next = call
            /\ (call.st = "running" /\ next # call) =>
                 /\ Len(next.attempts) = Len(call.attempts) + 1
                 /\ next.st \in {"running", "ok", "fail"}

C9_BoundedRetry == []C9_CallInvariant /\ [][C9_CallStep]_vars

C9_Witness ==
    \E k \in DOMAIN Run.calls : Run.calls[k].st = "fail" /\ Len(Run.calls[k].attempts) = 4

\* C10: if the cover fails after its retries, the run emits an error event
\* for index 0, records failed[0], leaves cover_image unset, still brings
\* every content page to its complete/error event, and emits finish.
C10_CoverFailureContinues ==
    (RunEnded /\ \E k \in DOMAIN Run.pages :
                    Run.pages[k].index = 0 /\ Run.calls[k].st = "fail") =>
        LET ev == Run.events
        IN  /\ CountWhere(ev, 0, "error") = 1
            /\ 0 \in DOMAIN Failed
            /\ task_states[TaskId].cover_image = None
            /\ Len(ContentResults(ev)) = NumContent(Run.pages)
            /\ IsFinish(ev[Len(ev)])

\* C11: in both modes, when generating one page raises an unexpected
\* exception, that page gets an error event carrying the exception's message
\* and an entry in failed, every other page still gets its own complete/error
\* event, and finish is emitted.
C11_UnexpectedException ==
    (RunEnded /\ \E k \in DOMAIN Run.calls : Run.calls[k].st = "raised") =>
        LET ev == Run.events
        IN  /\ \A k \in DOMAIN Run.calls :
                 Run.calls[k].st = "raised" =>
                    /\ \E i \in 1..Len(ev) :
                         /\ ev[i].event = "error"
                         /\ ev[i].index = Run.pages[k].index
                         /\ ev[i].message = Run.calls[k].error
                    /\ Run.pages[k].index \in DOMAIN Failed
            /\ Len(SelectSeq(ev, IsResult))
                 = NumContent(Run.pages) + (IF HasCover(Run.pages) THEN 1 ELSE 0)
            /\ IsFinish(ev[Len(ev)])

\* the pool size the provider's configuration asks for
ConfiguredPool ==
    IF provider_config.max_concurrent = None THEN MAX_CONCURRENT
    ELSE provider_config.max_concurrent[1]

InProgress(op) ==
    {k \in ContentPositions(op.pages) : op.calls[k].st = "running"}
Submitted(op) ==
    {k \in ContentPositions(op.pages) : op.calls[k].st # "none"}

\* C12: in concurrent mode at most max_concurrent (default MAX_CONCURRENT)
\* content pages are being generated at any moment, and the content pages are
\* submitted all together, before the first generating event.
C12_BoundedPool ==
    (Concurrent /\ Run.kind = "generate") =>
        /\ Cardinality(InProgress(Run)) <= ConfiguredPool
        /\ Submitted(Run) \in {{}, ContentPositions(Run.pages)}
        /\ GeneratingEvents(Run.events) # <<>> =>
             Submitted(Run) = ContentPositions(Run.pages)

C12_Witness ==
    /\ Concurrent
    /\ Run.kind = "generate"
    /\ ConfiguredPool = 1
    /\ \E j, k \in ContentPositions(Run.pages) :
         /\ Run.calls[j].st = "running"
         /\ Len(Run.calls[j].attempts) >= 1
         /\ Run.calls[k].st = "queued"

\* the bytes that the successful calls for a page index have written
SuccessfulBytes(index) ==
    UNION {{ImageBytes(o, k, Len(ops[o].calls[k].attempts)) :
              k \in {j \in DOMAIN ops[o].calls :
                       /\ ops[o].pages[j].index = index
                       /\ ops[o].calls[j].st = "ok"}} : o \in Ops}

FileWritten(index) ==
    index \in DOMAIN disk /\ disk[index] \in SuccessfulBytes(index)

C13_Invariant == \A index \in DOMAIN Generated : FileWritten(index)

C13_Step == \A index \in DOMAIN Generated' \ DOMAIN Generated : FileWritten(index)

\* C13: every key of generated has its file "{index}.png" in the task
\* directory, written by a successful generation attempt, and the file was
\* there before the step that inserted the key.
C13_WrittenBeforeGenerated == []C13_Invariant /\ [][C13_Step]_vars

C13_Witness ==
    /\ 0 \in DOMAIN Generated
    /\ disk[0] # OldCover
    /\ \E o \in Ops :
         /\ ops[o].kind = "generate"
         /\ ops[o].pc = "finished"
    /\ \E o \in Ops :
         /\ ops[o].kind = "regenerate"
         /\ ops[o].pc = "returned"
         /\ ops[o].calls[1].st = "ok"
         /\ ops[o].pages[1].index = 0

\* a run has executed self._task_states[task_id]["cover_image"] = ...
\* (image.py:157) exactly when its local cover_image_data is set
AssignedCover(o) == ops[o].kind = "generate" /\ ops[o].cover_image_data # None

\* C14: over the lifetime of the task id, whatever operations are called,
\* cover_image is assigned at most once, and always the bytes of a
\* successfully generated index-0 image.
C14_CoverAssignedOnce ==
    /\ Cardinality({o \in Ops : AssignedCover(o)}) <= 1
    /\ (HasTask /\ task_states[TaskId].cover_image # None) =>
          task_states[TaskId].cover_image \in SuccessfulBytes(0)

\* the step in which retry operation o hands the outcome of its call k over
Reports(o, k) ==
    /\ k \in DOMAIN ops[o].calls
    /\ \/ /\ ops[o].kind \in {"retry_single", "regenerate"}
          /\ ops[o].pc = "rs_call"
          /\ ops'[o].pc = "returned"
       \/ /\ ops[o].kind = "retry_failed"
          /\ k \notin ops[o].collected
          /\ k \in ops'[o].collected

C15_Step ==
    \A o \in Ops, k \in 1..MaxOverlapPages :
        (Reports(o, k) /\ ops[o].kind # "regenerate"
           /\ ops[o].calls[k].st = "fail" /\ HasTask) =>
            LET index == ops[o].pages[k].index
            IN  /\ index \in DOMAIN Failed'
                /\ Failed'[index] = ops[o].calls[k].error

\* C15: when an attempt of retry_single_image or retry_failed_images for an
\* index has failed, the failed map of the task's state holds that index
\* mapped to the message of that failure.
C15_RetryFailureRecorded == [][C15_Step]_vars

C16_Step ==
    \A o \in Ops :
        (Reports(o, 1) /\ ops[o].kind \in {"retry_single", "regenerate"}
           /\ ops[o].calls[1].st = "ok" /\ HasTask
           /\ ops[o].pages[1].index \in DOMAIN Failed) =>
            LET index == ops[o].pages[1].index
            IN  /\ Generated' = Put(Generated, index, Filename(index))
                /\ Failed' = Del(Failed, index)
                /\ ops'[o].result.success

\* C16: when retry_single_image succeeds for an index that is a key of failed
\* in an existing task state, the index becomes a key of generated, mapped to
\* "{index}.png", and stops being a key of failed, and the entries of every
\* other index stay as they were.
C16_RetrySuccessMoves == [][C16_Step]_vars

C16_Witness ==
    /\ HasTask
    /\ Run.kind = "retry_single"
    /\ Run.pc = "returned"
    /\ Run.calls[1].st = "ok"
    /\ Len(Run.calls[1].attempts) >= 2
    /\ DOMAIN Generated = {0, 1}
    /\ DOMAIN Failed = (1..MaxIndex) \ {1}
    /\ \A index \in DOMAIN Failed : Failed[index] = PriorError(index)

IsSingleRetry(o) == ops[o].kind \in {"retry_single", "regenerate"}

C17_Invariant ==
    \A o \in Ops :
        IsSingleRetry(o) =>
            \A i \in 1..Len(ops[o].calls[1].passed) :
                ops[o].calls[1].passed[i] = ops[o].calls[1].reference_image

C17_Step ==
    \A o \in Ops :
        (ops[o].kind = "none" /\ ops'[o].kind \in {"retry_single", "regenerate"}) =>
            LET reference_image == ops'[o].calls[1].reference_image
                use_reference == ops'[o].use_reference
                stored == IF HasTask THEN task_states[TaskId].cover_image ELSE None
            IN  /\ ~use_reference => reference_image = None
                /\ (use_reference /\ stored # None) => reference_image = stored
                /\ (use_reference /\ stored = None /\ 0 \in DOMAIN disk) =>
                      reference_image = disk[0]

CoverCalls == {k \in DOMAIN Run.pages : Run.pages[k].index = 0 /\ Run.calls[k].st # "none"}

CoverGenerated == \E k \in CoverCalls : Run.calls[k].st = "ok"
CoverBytes ==
    LET k == CHOOSE c \in CoverCalls : Run.calls[c].st = "ok"
    IN  ImageBytes(1, k, Len(Run.calls[k].attempts))
ContentBytes ==
    {ImageBytes(1, k, n) : k \in ContentPositions(Run.pages),
                           n \in 1..(AUTO_RETRY_COUNT + 1)}

RetryRun == Run.kind = "retry_failed"
RetryFinished == RetryRun /\ Run.pc = "finished"
PagesWithIndex(index) == {k \in DOMAIN Run.pages : Run.pages[k].index = index}

\* the calls of a retry_failed_images run have the retry budget of C9
RetryBudget ==
    \A k \in DOMAIN Run.calls :
        LET call == Run.calls[k]
            n == Len(call.attempts)
        IN  /\ n <= AUTO_RETRY_COUNT + 1
            /\ \A i \in 1..(n - 1) : call.attempts[i] # OK
            /\ call.st = "fail" => n = AUTO_RETRY_COUNT + 1
            /\ call.st = "ok" => call.attempts[n] = OK

\* exactly one complete or error event per page, as its call ended
OneResultPerPage ==
    /\ Len(SelectSeq(Run.events, IsResult)) = Len(Run.pages)
    /\ \A index \in Indices :
         /\ CountWhere(Run.events, index, "complete")
              = Cardinality({k \in PagesWithIndex(index) : Run.calls[k].st = "ok"})
         /\ CountWhere(Run.events, index, "error")
              = Cardinality({k \in PagesWithIndex(index) : Run.calls[k].st # "ok"})

LastAttempt ==
    GenerateImageOnce(adapter.endpoint_type, adapter.response, adapter.attempt + 1)

C21_Invariant ==
    /\ adapter.attempt < MAX_RETRIES
    /\ adapter.posts <= MAX_RETRIES
    /\ adapter.pc = "calling" =>
         (adapter.posts = adapter.attempt * Posts(adapter.endpoint_type)
            /\ ENABLED UpstreamAttempt)
    /\ adapter.pc = "returned" => (adapter.result.ok /\ adapter.result = LastAttempt)
    /\ adapter.pc = "raised" => ~adapter.result.ok

C21_Step ==
    /\ adapter.pc \in {"returned", "raised"} => adapter' = adapter
    /\ (adapter.pc = "calling" /\ adapter' # adapter) =>
         LET res == GenerateImageOnce(adapter.endpoint_type, adapter'.response,
                                      adapter.attempt + 1)
         IN  /\ adapter'.posts = adapter.posts + Posts(adapter.endpoint_type)
             /\ res.ok => (adapter'.pc = "returned" /\ adapter'.result = res)
             /\ ~res.ok =>
                  \/ adapter'.pc = "raised"
                  \/ adapter'.pc = "calling" /\ adapter'.attempt = adapter.attempt + 1

\* C21: one generate_image call makes at most MAX_RETRIES = 5 upstream
\* attempts, returns the result of the first attempt that succeeds and makes
\* no attempt after it, and always terminates: a call in progress can always
\* make its next attempt, every failed attempt either raises or advances the
\* loop variable, which stays below 5, and a call that has returned or
\* raised never runs again.
C21_BoundedAttempts == []C21_Invariant /\ [][C21_Step]_vars

C21_Witness ==
    /\ adapter.pc = "returned"
    /\ adapter.attempt = 2
    /\ adapter.posts = 3
    /\ adapter.last_error = StatusError(429)
    /\ adapter.result = Return(UpstreamImage(3))

\* C22: when every attempt of the budget failed, the error that
\* generate_image raises is the retries-exhausted error of the wrapper, for
\* rate-limit failures and for other failures alike.
C22_TerminalError ==
    adapter.pc = "raised" => adapter.result = Raise(RetriesExhausted)

\* a response that carries an image: a base64 payload that decodes to one,
\* or a URL whose download delivers one
HasImagePayload(r) ==
    /\ r.status = 200
    /\ \/ r.body \in {"data_b64", "content_data_uri", "content_long"} /\ r.payload = "image"
       \/ r.body \in {"data_url", "content_url"} /\ r.download = "image"

\* C24: generate_image returns only for a response with status 200 whose
\* body parses and carries an image payload, and what it returns is that
\* image, never an empty byte string, on both endpoints; for every other
\* response the attempt raises.
C24_NoEmptyResult ==
    adapter.pc = "returned" =>
        /\ adapter.result.value # EmptyBytes
        /\ HasImagePayload(adapter.response)

\* ---------------------------------------------------------------- page
PageCall == ops[1].calls[1]
PageBudget == (1 + AUTO_RETRY_COUNT) * MAX_RETRIES

\* every attempt of the page ended with an error that the adapter raised
EveryUpstreamCallFailed ==
    \A i \in DOMAIN PageCall.attempts :
        PageCall.attempts[i] \notin {OK, EmptyDataError}

C25_SingletonReset ==
    service_instance # None => provider_config = ActiveProvider(config_file)

\* ----------------------------------------------------------- lifecycle
\* C26: once the task's state exists the entry stays, its total never
\* changes, and no call replaces the entry or clears its maps: a key of
\* generated stays, a key of failed stays or moves to generated.
C26_EntryKept ==
    [][HasTask =>
         /\ HasTask'
         /\ task_states'[TaskId].total = task_states[TaskId].total
         /\ DOMAIN Generated \subseteq DOMAIN Generated'
         /\ DOMAIN Failed \subseteq (DOMAIN Failed' \cup DOMAIN Generated')]_vars

OpEnded(o) == ops[o].pc \in {"finished", "returned", "raised"}

\* C27: every generate_images run, retry_failed_images run and
\* retry_single_image call that has ended has invoked
\* scan_and_sync_task_images exactly once, after all its events (the
\* terminal one included), whether its pages succeeded or failed.
C27_SyncOnce ==
    \A o \in Ops : OpEnded(o) => ops[o].sync_log = <<Len(ops[o].events)>>

\* --------------------------------------------------------- cancellation
C28_Invariant ==
    Concurrent =>
        \A k \in DOMAIN Run.calls :
            LET call == Run.calls[k]
                page == Run.pages[k]
            IN  /\ call.st = "queued" =>
                     ENABLED (\E j \in DOMAIN Run.calls :
                                WorkerStart(1, j) \/ Attempt(1, j))
                /\ call.st = "running" => ENABLED Attempt(1, k)
                /\ call.st = "ok" => FileWritten(page.index)
                /\ call.st = "fail" => Len(call.attempts) = 1 + AUTO_RETRY_COUNT
                /\ call.st = "raised" => ~page.has_prompt
                /\ (CallDone(call) /\ page.has_prompt) => call.st \in {"ok", "fail"}

C28_Step ==
    \A k \in DOMAIN Run.calls :
        LET call == Run.calls[k]
            next == Run'.calls[k]
        IN  /\ call.st = "queued" => next.st \in {"queued", "running", "raised"}
            /\ call.st = "running" => next.st \in {"running", "ok", "fail"}
            /\ CallDone(call) => next = call

\* C28: in concurrent mode every submitted content page runs to its
\* terminal outcome, the file written or the retry budget exhausted (a page
\* without image_prompt raises as soon as a worker picks it up), whatever the
\* consumer does: while the run is suspended, being closed or closed, a queued
\* call can still be started, a running call can still make its next attempt,
\* and no step takes a submitted call back.
C28_NoCancellation == []C28_Invariant /\ [][C28_Step]_vars

C28_Witness ==
    /\ Concurrent
    /\ Run.pc = "closed"
    /\ Run.collected = {}
    /\ Len(Run.pages) = 2
    /\ \A k \in DOMAIN Run.pages : Run.pages[k].index # 0
    /\ Run.calls[1].st = "ok"
    /\ Run.calls[2].st = "fail"
    /\ Run.max_workers = 1

\* C29 (as stated): in concurrent mode the generated and failed maps are
\* written by the worker threads: a step that changes them is a step of a
\* worker's call.
C29_WorkersWrite_Original ==
    [][(Concurrent /\ (Generated' # Generated \/ Failed' # Failed)) =>
         Run'.calls # Run.calls]_vars

\* C29 (amended): in concurrent mode the task's state is written only by
\* the thread that drives generate_images, one result at a time between two
\* of its events; no step of a worker's call writes it, so the writes of
\* one run never interleave.
C29_CoordinatorWrites ==
    [][(Concurrent /\ task_states' # task_states) =>
         /\ Run'.calls = Run.calls
         /\ Len(Run'.events) = Len(Run.events) + 1]_vars

C29_Witness ==
    /\ Concurrent
    /\ RunFinished
    /\ Run.max_workers = 2
    /\ Len(Run.pages) = 2
    /\ DOMAIN Generated = {1}
    /\ DOMAIN Failed = {2}

\* ------------------------------------------------------------- resolver
\* C30: for every interleaving of concurrent requests, once every request
\* has left force_ip_resolution, socket.getaddrinfo is the original
\* resolver again.
C30_ResolverRestored ==
    (\A t \in Threads : resolving[t].pc = "out") => socket_getaddrinfo = Original

C34_EveryPosition ==
    RunFinished =>
        LET ev == Run.events
            fin == ev[Len(ev)]
        IN  /\ \A k \in DOMAIN Run.pages : Run.calls[k] # NoCall
            /\ Len(SelectSeq(ev, IsResult)) = Len(Run.pages)
            /\ fin.completed + fin.failed = Len(Run.pages)

\* ---------------------------------------------------------- has_cover
\* C35: in every state of a task, index 0 is a key of generated only if
\* cover_image is set (so GET /task/<id> reports has_cover = true whenever
\* the cover is in generated), also after retry_single_image produced the
\* cover that the cover phase had failed to produce.
C35_CoverImageSet ==
    (HasTask /\ 0 \in DOMAIN Generated) => task_states[TaskId].cover_image # None

\* ------------------------------------------------- regenerate, frame
\* the bytes that the last attempt of the single retry call produced
RetriedBytes == ImageBytes(1, 1, Len(Run.calls[1].attempts))

C36_Invariant ==
    (IsSingleRetry(1) /\ Run.pc = "returned") =>
        LET index == Run.pages[1].index
        IN  /\ Run.result.success = (Run.calls[1].st = "ok")
            /\ Run.result.success =>
                 /\ index \in DOMAIN disk
                 /\ disk[index] = RetriedBytes
                 /\ HasTask => (index \in DOMAIN Generated
                                  /\ Generated[index] = Filename(index))

C36_Step ==
    (ops'[1].kind \in {"retry_single", "regenerate"}) =>
        LET index == Run'.pages[1].index
        IN  /\ Run'.calls[1].st # "ok" =>
                 (task_states' = task_states /\ disk' = disk)
            /\ disk' # disk => disk' = Put(disk, index, RetriedBytes')
            /\ task_states' # task_states =>
                 /\ Run'.pc = "returned"
                 /\ Generated' = Put(Generated, index, Filename(index))
                 /\ Failed' = Del(Failed, index)
                 /\ task_states'[TaskId].cover_image = task_states[TaskId].cover_image

C31_Invariant ==
    sync_raises =>
        LET ev == Run.events
            fin == ev[Len(ev)]
        IN  /\ Run.pc = "raised" =>
                 \E k \in DOMAIN Run.calls : Run.calls[k].st = "raised"
            /\ Run.sync_errors = Len(Run.sync_log)
            /\ RunFinished =>
                 /\ fin = FinishEvent(Run.pages, Run.generated_images, Run.failed_pages)
                 /\ Run.sync_log = <<Len(ev) - 1>>
            /\ RetryFinished =>
                 /\ fin = [event |-> "retry_finish",
                           success |-> (Run.failed_count = 0),
                           total |-> Len(Run.pages),
                           completed |-> Run.success_count,
                           failed |-> Run.failed_count]
                 /\ Run.success_count + Run.failed_count = Len(Run.pages)
                 /\ Run.sync_log = <<Len(ev) - 1>>
            /\ (IsSingleRetry(1) /\ Run.pc = "returned") =>
                 LET index == Run.pages[1].index
                 IN  IF Run.calls[1].st = "ok"
                     THEN /\ Run.result = [success |-> TRUE, index |-> index,
                                           image_url |-> <<"url", TaskId, Filename(index)>>]
                          /\ Run.sync_log = <<0>>
                     ELSE /\ Run.result = [success |-> FALSE, index |-> index,
                                           error |-> Run.calls[1].error,
                                           retryable |-> TRUE]
                          /\ Run.sync_log = <<>>

C31_Step ==
    (sync_raises /\ Run'.sync_errors > Run.sync_errors) =>
        /\ disk' = disk
        /\ Run'.pc \in {"finished", "returned"}
        /\ IF IsSingleRetry(1)
           THEN /\ HasTask' = HasTask
                /\ Generated' = IF HasTask
                                THEN Put(Generated, Run.pages[1].index,
                                         Filename(Run.pages[1].index))
                                ELSE Generated
                /\ Failed' = Del(Failed, Run.pages[1].index)
           ELSE task_states' = task_states

\* C31: when scan_and_sync_task_images raises, the operation does not end
\* with that exception: generate_images emits the finish event computed
\* from its result lists, retry_failed_images emits retry_finish with its
\* counters and retry_single_image returns its result record, and the step
\* in which the sync fails leaves the generated and failed maps as the
\* operation itself sets them (unchanged for the two streams, the retried
\* index moved to generated for a successful single retry).
C31_SyncFailureIgnored == []C31_Invariant /\ [][C31_Step]_vars

C31_Witness ==
    /\ sync_raises
    /\ RunFinished
    /\ Run.sync_errors = 1
    /\ Run.sync_log = <<2>>
    /\ DOMAIN Generated = {0}
    /\ Run.events[Len(Run.events)].completed = 1
    /\ Run.events[Len(Run.events)].failed = 0
    /\ Run.events[Len(Run.events)].success

\* -------------------------------------------------------- history store
\* C37: every record id that create_record returned while the storage mode
\* was the current one can be read back with get_record (Supabase
\* answering) until delete_record has succeeded for it, also when the
\* Supabase insert failed and create_record fell back to the file store.
C37_ReadBack ==
    \A record_id \in DOMAIN history.returned :
        history.returned[record_id] = StoreUsed(history) =>
            GetRecordResult(history, record_id, FALSE) # None

\* C38: while the storage mode is local (set_storage_mode('local') has
\* returned success and the client is still held), no history operation,
\* scan_and_sync_task_images included, reads from or writes to Supabase.
C38_LocalOnly ==
    [][(/\ history.supabase
        /\ ~history.enable_supabase
        /\ history'.last.op # "set_storage_mode") =>
         /\ "supabase" \notin history'.touched
         /\ history'.remote = history.remote]_vars

\* --------------------------------------------------- stored api keys
\* the key that a provider has in a store: none, when the provider or its
\* api_key is absent or the api_key is empty
KeyOf(keys, name) ==
    IF name \in DOMAIN keys /\ keys[name] \notin {None, EmptyStr} THEN keys[name]
    ELSE None

C32_Step ==
    key_store'.op = "post" =>
        /\ \A name \in DOMAIN key_store'.posted :
             key_store'.posted[name].api_key = EmptyStr =>
                 /\ KeyOf(key_store'.file, name) = KeyOf(key_store.file, name)
                 /\ KeyOf(key_store'.remote, name) = KeyOf(key_store.remote, name)
        /\ (key_store.op = "get" /\ key_store'.posted = key_store.response) =>
             \A name \in ProviderNames :
                 /\ KeyOf(key_store'.file, name) = KeyOf(key_store.file, name)
                 /\ KeyOf(key_store'.remote, name) = KeyOf(key_store.remote, name)

====
